---- MODULE Spec2Model ----
(***************************************************************************)
(* State-machine model of the battle engine of src/game.rs: one battle     *)
(* record, the character records of the accounts that can be passed to     *)
(* its instructions, and the cluster clock.  Every instruction handler is  *)
(* an operator from the record(s) and the call's inputs to a result and    *)
(* the record(s) after the call; an instruction that returns an error      *)
(* leaves every account as it was (the runtime discards the writes of a    *)
(* failed instruction).                                                    *)
(***************************************************************************)
EXTENDS Integers, Sequences, FiniteSets, TLC

VARIABLES battle, chars, now, hist

vars == <<battle, chars, now, hist>>

(***************************************************************************)
(* Program constants                                                       *)
(***************************************************************************)
TURN_TIMEOUT_SECONDS == 30
BATTLE_EXPIRY_SECONDS == 3600
WILDCARD_DECISION_TIMEOUT == 10
LOG_CAPACITY == 50

(***************************************************************************)
(* Bounds of the model                                                     *)
(***************************************************************************)
\* instructions that return Ok explored per battle
MaxOps == 4
\* instructions that return Ok explored per duel
MaxDuelOps == 8
\* instructions of the players and the AI path explored per battle under a
\* fair check_timeout
MaxLiveOps == 3
\* calls explored per pair of veteran characters
MaxProgressOps == 3
\* Tournament wins of a veteran character: one win short of level 50
VeteranWins == 2807
\* instructions that return Ok explored per long battle
MaxLogOps == 40
\* instructions that return Ok explored per battle against the scripted
\* opponent
MaxAiOps == 6
\* instructions that return Ok explored per battle with a decision wildcard
MaxWildOps == 6
\* instructions that return Ok explored per battle that may be forfeited
\* with a wildcard pending
MaxForfeitOps == 5
\* instructions that return Ok explored per staked battle
MaxEscrowOps == 4
\* instructions that return Ok explored per battle in which GamblersFallacy
\* follows DoubleOrNothing
MaxFallacyOps == 7
\* the largest damage handed to the stance layer
MaxDamage == 200

(***************************************************************************)
(* Input sets                                                              *)
(***************************************************************************)
\* account keys of the Character accounts a caller can pass: 1 and 2 are the
\* battle's player1 and player2, 3 is a character that is not in the battle
Player1Key == 1
Player2Key == 2
OutsiderKey == 3
Keys == {Player1Key, Player2Key, OutsiderKey}

Stances == {"Aggressive", "Defensive", "Balanced", "Berserker", "Counter"}
\* the stances the callers explored commit and reveal
StanceInputs == {"Aggressive", "Berserker"}
Salts == {42, 298}
Classes == {"Warrior", "Assassin", "Mage", "Tank", "Trickster"}

\* the clock values the cluster reports.  A roll depends on the clock only
\* through its 256-second block: in blocks 96 and 97 no wildcard triggers, in
\* block 104 DoubleOrNothing does, in block 107 DeathRoulette.  The battle
\* is created 5 seconds before block 97 and expires 11 seconds into block 111
Block(q) == 256 * q
CreatedAt == Block(97) - 5
Times ==
  {CreatedAt,
   Block(104), Block(104) + 11, Block(104) + 41,
   Block(107),
   Block(111) + 11}

\* the battles explored: the classes of the three characters, the match type,
\* the stake and whether player 2 is the scripted opponent
Setups ==
  { [c1 |-> "Mage", c2 |-> "Warrior", c3 |-> "Assassin",
     match_type |-> "Ranked", stake_amount |-> 0, is_vs_ai |-> FALSE],
    [c1 |-> "Trickster", c2 |-> "Tank", c3 |-> "Assassin",
     match_type |-> "Staked", stake_amount |-> 5, is_vs_ai |-> FALSE],
    [c1 |-> "Warrior", c2 |-> "Mage", c3 |-> "Assassin",
     match_type |-> "Casual", stake_amount |-> 0, is_vs_ai |-> TRUE] }

(***************************************************************************)
(* Integer helpers                                                         *)
(***************************************************************************)
Min(a, b) == IF a < b THEN a ELSE b
Max(a, b) == IF a > b THEN a ELSE b
saturating_sub(a, b) == IF a > b THEN a - b ELSE 0
Abs(a) == IF a < 0 THEN -a ELSE a

RECURSIVE BitXor(_, _)
BitXor(a, b) ==
  IF a = 0 THEN b
  ELSE IF b = 0 THEN a
  ELSE (((a % 2) + (b % 2)) % 2) + (2 * BitXor(a \div 2, b \div 2))

Shr(a, n) == a \div (2 ^ n)

\* fn simple_random(timestamp, seed1, seed2) -> u8
simple_random(timestamp, seed1, seed2) ==
  LET combined == BitXor(BitXor(timestamp, seed1), seed2)
  IN  BitXor(BitXor(Shr(combined, 8), Shr(combined, 16)), Shr(combined, 24)) % 256

(***************************************************************************)
(* Stance commitment hash                                                  *)
(***************************************************************************)
\* BattleStance::to_bytes
to_bytes(stance) ==
  CASE stance = "Aggressive" -> <<0>>
    [] stance = "Defensive" -> <<1>>
    [] stance = "Balanced" -> <<2>>
    [] stance = "Berserker" -> <<3>>
    [] stance = "Counter" -> <<4>>

\* u64::to_le_bytes: byte i (from 1) of v, least significant first
RECURSIVE LeByte(_, _)
LeByte(v, i) == IF i = 1 THEN v % 256 ELSE LeByte(v \div 256, i - 1)

to_le_bytes(salt) == [i \in 1..8 |-> LeByte(salt, i)]

\* [0u8; 32]
ZeroHash == [i \in 1..32 |-> 0]

\* solana_program::hash::hash, as an ideal hash: a 32-byte digest that is
\* different for different inputs (of at most 31 bytes) and never all zero
hash(bytes) ==
  [i \in 1..32 |-> IF i = 1 THEN Len(bytes)
                   ELSE IF i - 1 <= Len(bytes) THEN bytes[i - 1] ELSE 0]

\* hash(&[&stance.to_bytes()[..], &salt.to_le_bytes()].concat()).to_bytes()
computed_hash(stance, salt) == hash(to_bytes(stance) \o to_le_bytes(salt))

\* the hashes a caller commits: the honest commitments of the stances and
\* salts explored, and the zero array
HashInputs == {computed_hash(s, 42) : s \in StanceInputs} \cup {ZeroHash}

(***************************************************************************)
(* Character records                                                       *)
(***************************************************************************)
\* the class-based base stats of create_character
BaseStats(class) ==
  CASE class = "Warrior" ->
         [max_hp |-> 120, base_damage_min |-> 8, base_damage_max |-> 15,
          crit_chance |-> 15, dodge_chance |-> 0]
    [] class = "Assassin" ->
         [max_hp |-> 90, base_damage_min |-> 12, base_damage_max |-> 20,
          crit_chance |-> 35, dodge_chance |-> 20]
    [] class = "Mage" ->
         [max_hp |-> 80, base_damage_min |-> 10, base_damage_max |-> 18,
          crit_chance |-> 20, dodge_chance |-> 0]
    [] class = "Tank" ->
         [max_hp |-> 150, base_damage_min |-> 6, base_damage_max |-> 12,
          crit_chance |-> 10, dodge_chance |-> 0]
    [] class = "Trickster" ->
         [max_hp |-> 100, base_damage_min |-> 9, base_damage_max |-> 16,
          crit_chance |-> 25, dodge_chance |-> 15]

\* pub fn create_character: the Character account after the call
create_character(character_class) ==
  LET s == BaseStats(character_class)
  IN  [character_class |-> character_class,
       level |-> 1,
       xp |-> 0,
       total_wins |-> 0,
       total_losses |-> 0,
       rank_tier |-> "Bronze",
       season_wins |-> 0,
       season_losses |-> 0,
       achievements |-> <<>>,
       max_hp |-> s.max_hp,
       current_hp |-> s.max_hp,
       base_damage_min |-> s.base_damage_min,
       base_damage_max |-> s.base_damage_max,
       crit_chance |-> s.crit_chance,
       dodge_chance |-> s.dodge_chance,
       defense |-> 0,
       mmr |-> 1000]

(***************************************************************************)
(* The battle record                                                       *)
(***************************************************************************)
\* Option::None of an enum or bool field, and of the winner (sides are 1 and 2)
None == "None"
NoWinner == 0

\* pub fn create_battle: the Battle account after the call (both characters
\* alive), created at clock value ts
create_battle(p1_char, p2_char, match_type, stake_amount, is_vs_ai, ts) ==
  [player1 |-> Player1Key,
   player2 |-> Player2Key,
   match_type |-> match_type,
   stake_amount |-> stake_amount,
   created_at |-> ts,
   turn_number |-> 0,
   current_turn |-> 1,
   is_finished |-> FALSE,
   winner |-> NoWinner,
   is_vs_ai |-> is_vs_ai,
   abandoned |-> FALSE,
   last_action_time |-> ts,
   player1_hp |-> p1_char.max_hp,
   player2_hp |-> p2_char.max_hp,
   player1_combo |-> 0,
   player2_combo |-> 0,
   player1_stance |-> "Balanced",
   player2_stance |-> "Balanced",
   player1_stance_committed |-> FALSE,
   player2_stance_committed |-> FALSE,
   player1_stance_hash |-> ZeroHash,
   player2_stance_hash |-> ZeroHash,
   player1_dot_damage |-> 0,
   player2_dot_damage |-> 0,
   player1_dot_turns |-> 0,
   player2_dot_turns |-> 0,
   player1_reflection |-> 0,
   player2_reflection |-> 0,
   player1_miss_count |-> 0,
   player2_miss_count |-> 0,
   player1_special_cooldown |-> 0,
   player2_special_cooldown |-> 0,
   last_damage_roll |-> 0,
   wildcard_active |-> FALSE,
   wildcard_type |-> None,
   wildcard_decision_deadline |-> 0,
   wildcard_player1_decision |-> None,
   wildcard_player2_decision |-> None,
   battle_log |-> <<>>]

\* a log that still takes an entry when the capacity is reached
LogBeyondCapacity(b, event) ==
  IF Len(b.battle_log) <= LOG_CAPACITY
  THEN [b EXCEPT !.battle_log = Append(b.battle_log, event)]
  ELSE b

\* fn log_battle_event: an entry is the message's text and the number in it
log_battle_event(b, event) ==
  IF Len(b.battle_log) < LOG_CAPACITY
  THEN [b EXCEPT !.battle_log = Append(b.battle_log, event)]
  ELSE b

\* an expiry check that still passes at the full expiry age
ExpiryCheckInclusive(b, ts) == (ts - b.created_at) <= BATTLE_EXPIRY_SECONDS

\* fn check_battle_timeout: TRUE when the call passes the expiry check
check_battle_timeout(b, ts) == (ts - b.created_at) < BATTLE_EXPIRY_SECONDS

\* fn requires_decision
requires_decision(wildcard) == wildcard \in {"DoubleOrNothing", "DeathRoulette"}

\* the per-side fields of the record, read and written by side
HpOf(b, is_player1) == IF is_player1 THEN b.player1_hp ELSE b.player2_hp
SetHp(b, is_player1, v) ==
  IF is_player1 THEN [b EXCEPT !.player1_hp = v] ELSE [b EXCEPT !.player2_hp = v]
ComboOf(b, is_player1) == IF is_player1 THEN b.player1_combo ELSE b.player2_combo
SetCombo(b, is_player1, v) ==
  IF is_player1 THEN [b EXCEPT !.player1_combo = v] ELSE [b EXCEPT !.player2_combo = v]
MissCountOf(b, is_player1) ==
  IF is_player1 THEN b.player1_miss_count ELSE b.player2_miss_count
ReflectionOf(b, is_player1) ==
  IF is_player1 THEN b.player1_reflection ELSE b.player2_reflection
SetReflection(b, is_player1, v) ==
  IF is_player1 THEN [b EXCEPT !.player1_reflection = v]
  ELSE [b EXCEPT !.player2_reflection = v]
CooldownOf(b, is_player1) ==
  IF is_player1 THEN b.player1_special_cooldown ELSE b.player2_special_cooldown
SetCooldown(b, is_player1, v) ==
  IF is_player1 THEN [b EXCEPT !.player1_special_cooldown = v]
  ELSE [b EXCEPT !.player2_special_cooldown = v]
StanceHashOf(b, is_player1) ==
  IF is_player1 THEN b.player1_stance_hash ELSE b.player2_stance_hash
\* a read of player 1's flag for either side
CommittedOfPlayer1(b, is_player1) == b.player1_stance_committed

CommittedOf(b, is_player1) ==
  IF is_player1 THEN b.player1_stance_committed ELSE b.player2_stance_committed
DotTurnsOf(b, is_player1) ==
  IF is_player1 THEN b.player1_dot_turns ELSE b.player2_dot_turns
DotDamageOf(b, is_player1) ==
  IF is_player1 THEN b.player1_dot_damage ELSE b.player2_dot_damage

(***************************************************************************)
(* Damage pipeline                                                         *)
(***************************************************************************)
\* calculate_damage, "Check for critical hit": the attacker's effective crit
\* chance, with the Gambler's Fallacy boost
EffectiveCritChance(attacker, b, is_player1) ==
  IF b.wildcard_type = "GamblersFallacy"
  THEN attacker.crit_chance + (MissCountOf(b, is_player1) * 5)
  ELSE attacker.crit_chance

\* calculate_damage, the crit multiplier by class
CritDamage(class, damage) ==
  CASE class = "Assassin" -> damage * 3
    [] class = "Trickster" -> (damage * 2) + 20
    [] OTHER -> damage * 2

\* calculate_damage, "Special moves": the damage after the special and the
\* battle record with the special's side effects
SpecialMove(class, damage, b, is_player1, timestamp) ==
  CASE class = "Warrior" -> [damage |-> damage * 2, b |-> b]
    [] class = "Assassin" -> [damage |-> damage * 3, b |-> b]
    [] class = "Mage" ->
         [damage |-> damage * 2,
          b |-> IF is_player1
                THEN [b EXCEPT !.player2_dot_damage = 15, !.player2_dot_turns = 3]
                ELSE [b EXCEPT !.player1_dot_damage = 15, !.player1_dot_turns = 3]]
    [] class = "Tank" -> [damage |-> damage, b |-> SetReflection(b, is_player1, 50)]
    [] class = "Trickster" ->
         LET effect_roll == simple_random(timestamp, b.turn_number, 11) % 4
         IN  CASE effect_roll = 0 ->
                    [damage |-> damage * 2,
                     b |-> IF is_player1
                           THEN [b EXCEPT !.player1_combo = b.player1_combo + b.player2_combo,
                                          !.player2_combo = 0]
                           ELSE [b EXCEPT !.player2_combo = b.player2_combo + b.player1_combo,
                                          !.player1_combo = 0]]
               [] effect_roll = 1 ->
                    [damage |-> damage * 2,
                     b |-> [b EXCEPT !.player1_stance = b.player2_stance,
                                     !.player2_stance = b.player1_stance]]
               [] effect_roll = 2 -> [damage |-> damage * 3, b |-> b]
               [] OTHER ->
                    [damage |-> damage * 2, b |-> [b EXCEPT !.wildcard_active = TRUE]]

\* calculate_damage, the base roll plus the level bonus
BaseDamage(attacker, b, timestamp) ==
  (attacker.base_damage_min
     + (simple_random(timestamp, b.turn_number, 3)
          % ((attacker.base_damage_max - attacker.base_damage_min) + 1)))
    + ((attacker.level - 1) * 2)

\* calculate_damage, "Check for critical hit" and "Instant kill check"
CritStage(damage, attacker, defender, b, is_player1, timestamp) ==
  IF (simple_random(timestamp, b.turn_number, 4) % 100)
       < EffectiveCritChance(attacker, b, is_player1)
  THEN IF /\ HpOf(b, ~is_player1) < ((defender.max_hp * 20) \div 100)
          /\ (simple_random(timestamp, b.turn_number, 5) % 100) < 5
       THEN HpOf(b, ~is_player1)
       ELSE CritDamage(attacker.character_class, damage)
  ELSE damage

\* calculate_damage, "Apply combo bonus"
ComboStage(damage, b, is_player1) ==
  IF ComboOf(b, is_player1) > 0
  THEN damage + ((damage * 15 * ComboOf(b, is_player1)) \div 100)
  ELSE damage

\* calculate_damage, "Special moves"
SpecialStage(damage, attacker, b, is_player1, use_special, timestamp) ==
  IF use_special
  THEN SpecialMove(attacker.character_class, damage, b, is_player1, timestamp)
  ELSE [damage |-> damage, b |-> b]

\* calculate_damage, "Apply defense" and "Check for dodge"
DefenseStage(sp, defender, timestamp) ==
  [damage |->
     IF (simple_random(timestamp, sp.b.turn_number, 6) % 100) < defender.dodge_chance
     THEN 0
     ELSE saturating_sub(sp.damage, defender.defense),
   b |-> sp.b]

\* fn calculate_damage: the damage and the battle record after the call
calculate_damage(attacker, defender, b, is_player1, use_special, timestamp) ==
  DefenseStage(
    SpecialStage(
      ComboStage(
        CritStage(BaseDamage(attacker, b, timestamp),
                  attacker, defender, b, is_player1, timestamp),
        b, is_player1),
      attacker, b, is_player1, use_special, timestamp),
    defender, timestamp)

\* apply_stance_modifiers, the match on the attacker's stance
AttackerStance(damage, attacker_stance, defender_stance, is_player1, b) ==
  CASE attacker_stance = "Aggressive" -> [damage |-> (damage * 130) \div 100, b |-> b]
    [] attacker_stance = "Defensive" -> [damage |-> (damage * 70) \div 100, b |-> b]
    [] attacker_stance = "Berserker" ->
         [damage |-> damage * 2,
          b |-> SetHp(b, is_player1,
                      saturating_sub(HpOf(b, is_player1), ((damage * 2) * 25) \div 100))]
    [] attacker_stance = "Counter" ->
         [damage |-> IF defender_stance = "Aggressive" THEN (damage * 150) \div 100 ELSE 0,
          b |-> b]
    [] OTHER -> [damage |-> damage, b |-> b]

\* apply_stance_modifiers, the match on the defender's stance
DefenderStance(a, defender_stance) ==
  [damage |-> CASE defender_stance = "Defensive" -> (a.damage * 50) \div 100
                [] defender_stance = "Aggressive" -> (a.damage * 150) \div 100
                [] OTHER -> a.damage,
   b |-> a.b]

\* a stance layer that applies the defender's modifier first
StanceModifiersDefenderFirst(damage, attacker_stance, defender_stance, is_player1, b) ==
  AttackerStance(DefenderStance([damage |-> damage, b |-> b], defender_stance).damage,
                 attacker_stance, defender_stance, is_player1, b)

\* fn apply_stance_modifiers: the damage and the battle record after the call
apply_stance_modifiers(damage, attacker_stance, defender_stance, is_player1, b) ==
  DefenderStance(AttackerStance(damage, attacker_stance, defender_stance, is_player1, b),
                 defender_stance)

\* fn apply_wildcard_effects: the damage and the battle record after the call
apply_wildcard_effects(damage, b, is_player1, timestamp) ==
  CASE b.wildcard_type = "ReverseRoles" ->
         LET p1_percent == (b.player1_hp * 100) \div Max(b.player1_hp, 1)
             p2_percent == (b.player2_hp * 100) \div Max(b.player2_hp, 1)
             temp == b.player1_hp
         IN  [damage |-> damage,
              b |-> [b EXCEPT !.player1_hp = (b.player1_hp * p2_percent) \div 100,
                              !.player2_hp = (temp * p1_percent) \div 100]]
    [] b.wildcard_type = "MysteryBox" ->
         LET buff_roll == simple_random(timestamp, b.turn_number, 8) % 4
         IN  CASE buff_roll = 0 -> [damage |-> damage * 3, b |-> b]
               [] buff_roll = 1 -> [damage |-> damage, b |-> SetReflection(b, is_player1, 50)]
               [] buff_roll = 2 ->
                    [damage |-> damage, b |-> SetHp(b, is_player1, HpOf(b, is_player1) + 50)]
               [] OTHER ->
                    [damage |-> damage,
                     b |-> SetCombo(b, is_player1, ComboOf(b, is_player1) + 3)]
    [] b.wildcard_type = "ComboBreaker" ->
         [damage |-> damage,
          b |-> IF is_player1
                THEN [b EXCEPT !.player1_combo = b.player1_combo + b.player2_combo,
                               !.player2_combo = 0]
                ELSE [b EXCEPT !.player2_combo = b.player2_combo + b.player1_combo,
                               !.player1_combo = 0]]
    [] b.wildcard_type = "TimeWarp" ->
         [damage |-> 0,
          b |-> SetHp(b, ~is_player1, HpOf(b, ~is_player1) + Min(damage, 50))]
    [] b.wildcard_type = "LuckySeven" ->
         [damage |-> IF b.last_damage_roll = 7 THEN damage * 7 ELSE damage, b |-> b]
    [] OTHER -> [damage |-> damage, b |-> b]

\* execute_battle_turn, "Apply damage": the reflected share the attacker takes
Reflect(b, is_player1, damage) ==
  IF ReflectionOf(b, is_player1) > 0
  THEN log_battle_event(
         SetHp(b, is_player1,
               saturating_sub(HpOf(b, is_player1),
                              (damage * ReflectionOf(b, is_player1)) \div 100)),
         <<IF is_player1 THEN "Player 1 takes reflected damage"
           ELSE "Player 2 takes reflected damage",
           (damage * ReflectionOf(b, is_player1)) \div 100>>)
  ELSE b

\* execute_battle_turn, "Apply damage" and the "Damage dealt" log entry
ApplyDamage(b, is_player1, damage) ==
  log_battle_event(
    Reflect(SetHp(b, ~is_player1, saturating_sub(HpOf(b, ~is_player1), damage)),
            is_player1, damage),
    <<"Damage dealt", damage>>)

\* a reduction that counts down both sides' cooldowns on every turn
ReduceBothCooldowns(b, is_player1) ==
  [b EXCEPT !.player1_special_cooldown = saturating_sub(@, 1),
            !.player2_special_cooldown = saturating_sub(@, 1)]

\* execute_battle_turn, "Set special cooldown" and "Reduce cooldowns"
ReduceCooldown(b, is_player1) ==
  SetCooldown(b, is_player1, saturating_sub(CooldownOf(b, is_player1), 1))

UpdateCooldown(b, is_player1, use_special) ==
  ReduceCooldown(IF use_special THEN SetCooldown(b, is_player1, 3) ELSE b, is_player1)

\* an end check that marks the battle finished and records no winner
CheckBattleEndNoWinner(b) ==
  IF b.player1_hp = 0 \/ b.player2_hp = 0
  THEN log_battle_event([b EXCEPT !.is_finished = TRUE],
                        <<"Battle finished! Winner", 0>>)
  ELSE b

\* execute_battle_turn, "Check for battle end"
CheckBattleEnd(b) ==
  IF b.player1_hp = 0 \/ b.player2_hp = 0
  THEN log_battle_event(
         [b EXCEPT !.is_finished = TRUE,
                   !.winner = IF b.player1_hp > 0 THEN 1 ELSE 2],
         <<"Battle finished! Winner", IF b.player1_hp > 0 THEN 1 ELSE 2>>)
  ELSE b

\* a turn switch that always hands the turn to side 2
PassTurnToPlayer2(b) ==
  [b EXCEPT !.current_turn = 2,
            !.turn_number = b.turn_number + 1,
            !.wildcard_active = FALSE]

\* execute_battle_turn, "Switch turns"
SwitchTurns(b) ==
  [b EXCEPT !.current_turn = IF b.current_turn = 1 THEN 2 ELSE 1,
            !.turn_number = b.turn_number + 1,
            !.wildcard_active = FALSE]

\* execute_battle_turn, the stances read after calculate_damage and the call
\* of apply_stance_modifiers
StanceStage(cd, is_player1) ==
  apply_stance_modifiers(
    cd.damage,
    IF is_player1 THEN cd.b.player1_stance ELSE cd.b.player2_stance,
    IF is_player1 THEN cd.b.player2_stance ELSE cd.b.player1_stance,
    is_player1, cd.b)

\* execute_battle_turn, the call of apply_wildcard_effects
WildcardStage(st, is_player1, timestamp) ==
  IF st.b.wildcard_active /\ st.b.wildcard_type # None
  THEN apply_wildcard_effects(st.damage, st.b, is_player1, timestamp)
  ELSE st

\* execute_battle_turn, from "Apply damage" to "Switch turns"
FinishTurn(wc, is_player1, use_special) ==
  SwitchTurns(CheckBattleEnd(UpdateCooldown(ApplyDamage(wc.b, is_player1, wc.damage),
                                            is_player1, use_special)))

\* fn execute_battle_turn: the battle record after the call
execute_battle_turn(b, attacker, defender, is_player1, use_special, timestamp) ==
  FinishTurn(
    WildcardStage(
      StanceStage(calculate_damage(attacker, defender, b, is_player1, use_special,
                                   timestamp),
                  is_player1),
      is_player1, timestamp),
    is_player1, use_special)

(***************************************************************************)
(* Instruction handlers.  A handler's value is [res, b]: the Ok or the     *)
(* GameError it returns and the battle record after the call.              *)
(***************************************************************************)
Ok(b) == [res |-> "Ok", b |-> b]
Err(e, b) == [res |-> e, b |-> b]

\* a turn check that lets every caller but player 1 through
IsTurnOfPlayer1Only(b, is_player1) == (is_player1 /\ b.current_turn = 1) \/ ~is_player1

\* the turn check of commit_stance and reveal_and_execute_turn
IsTurnOf(b, is_player1) ==
  (is_player1 /\ b.current_turn = 1) \/ (~is_player1 /\ b.current_turn = 2)

\* pub fn commit_stance
commit_stance(b, character_key, stance_hash, ts) ==
  LET is_player1 == b.player1 = character_key
  IN  IF b.is_finished THEN Err("BattleAlreadyFinished", b)
      ELSE IF ~check_battle_timeout(b, ts) THEN Err("BattleExpired", b)
      ELSE IF ~IsTurnOf(b, is_player1) THEN Err("NotYourTurn", b)
      ELSE IF CommittedOf(b, is_player1) THEN Err("AlreadyCommitted", b)
      ELSE Ok(IF is_player1
              THEN [b EXCEPT !.player1_stance_hash = stance_hash,
                             !.player1_stance_committed = TRUE,
                             !.last_action_time = ts]
              ELSE [b EXCEPT !.player2_stance_hash = stance_hash,
                             !.player2_stance_committed = TRUE,
                             !.last_action_time = ts])

\* a verification that drops the salt's high bytes
StanceVerifiedLowByte(b, is_player1, stance, salt) ==
  StanceHashOf(b, is_player1) = computed_hash(stance, salt % 256)

\* reveal_and_execute_turn, "Verify stance commitment"
StanceVerified(b, is_player1, stance, salt) ==
  IF is_player1
  THEN b.player1_stance_hash = computed_hash(stance, salt)
  ELSE b.player2_stance_hash = computed_hash(stance, salt)

\* reveal_and_execute_turn, "Set stance"
SetStance(b, is_player1, stance) ==
  IF is_player1 THEN [b EXCEPT !.player1_stance = stance]
  ELSE [b EXCEPT !.player2_stance = stance]

\* reveal_and_execute_turn, "Apply DOT damage at start of turn"
ApplyDot(b, is_player1) ==
  IF is_player1 /\ b.player1_dot_turns > 0
  THEN log_battle_event(
         [b EXCEPT !.player1_hp = saturating_sub(b.player1_hp, b.player1_dot_damage),
                   !.player1_dot_turns = b.player1_dot_turns - 1],
         <<"Player 1 takes DOT damage", b.player1_dot_damage>>)
  ELSE IF ~is_player1 /\ b.player2_dot_turns > 0
  THEN log_battle_event(
         [b EXCEPT !.player2_hp = saturating_sub(b.player2_hp, b.player2_dot_damage),
                   !.player2_dot_turns = b.player2_dot_turns - 1],
         <<"Player 2 takes DOT damage", b.player2_dot_damage>>)
  ELSE b

\* reveal_and_execute_turn, "Trickster ability: Manipulate wildcard chance"
WildcardChance(attacker) == IF attacker.character_class = "Trickster" THEN 25 ELSE 10

\* reveal_and_execute_turn, the event selected by wildcard_type_roll
WildcardOfRoll(wildcard_type_roll) ==
  CASE wildcard_type_roll = 0 -> "DoubleOrNothing"
    [] wildcard_type_roll = 1 -> "ReverseRoles"
    [] wildcard_type_roll = 2 -> "MysteryBox"
    [] wildcard_type_roll = 3 -> "DeathRoulette"
    [] wildcard_type_roll = 4 -> "ComboBreaker"
    [] wildcard_type_roll = 5 -> "TimeWarp"
    [] wildcard_type_roll = 6 -> "LuckySeven"
    [] OTHER -> "GamblersFallacy"

\* reveal_and_execute_turn, "Check for wildcard event": whether this call
\* triggers one
WildcardTriggers(b, attacker, ts) ==
  /\ (simple_random(ts, b.turn_number, 1) % 100) < WildcardChance(attacker)
  /\ ~b.wildcard_active

\* a reset that clears the flags and keeps the hashes
ResetFlagsOnly(b) ==
  [b EXCEPT !.player1_stance_committed = FALSE,
            !.player2_stance_committed = FALSE]

\* reveal_and_execute_turn, "Reset commitments for next turn"
ResetCommitments(b) ==
  [b EXCEPT !.player1_stance_committed = FALSE,
            !.player2_stance_committed = FALSE,
            !.player1_stance_hash = ZeroHash,
            !.player2_stance_hash = ZeroHash]

\* reveal_and_execute_turn, "Execute the actual turn" to the end of the call
SetLastActionTime(b, ts) == [b EXCEPT !.last_action_time = ts]

ExecuteAndReset(b, attacker, defender, is_player1, use_special, ts) ==
  ResetCommitments(
    SetLastActionTime(
      execute_battle_turn(b, attacker, defender, is_player1, use_special, ts), ts))

\* reveal_and_execute_turn, the wildcard selected by the call
SelectWildcard(b, ts) ==
  [b EXCEPT !.wildcard_type = WildcardOfRoll(simple_random(ts, b.turn_number, 2) % 8)]

\* reveal_and_execute_turn, the branch "Check if wildcard requires decision"
TriggerWildcard(b, attacker, defender, is_player1, use_special, ts) ==
  IF requires_decision(b.wildcard_type)
  THEN log_battle_event(
         [b EXCEPT !.wildcard_active = TRUE,
                   !.wildcard_decision_deadline = ts + WILDCARD_DECISION_TIMEOUT],
         <<"Wildcard event triggered - Decision required!", 0>>)
  ELSE ExecuteAndReset(
         log_battle_event([b EXCEPT !.wildcard_active = TRUE],
                          <<"Wildcard event triggered", 0>>),
         attacker, defender, is_player1, use_special, ts)

\* reveal_and_execute_turn, from "Check for wildcard event" to the end
WildcardOrTurn(b, attacker, defender, is_player1, use_special, ts) ==
  IF WildcardTriggers(b, attacker, ts)
  THEN TriggerWildcard(SelectWildcard(b, ts), attacker, defender, is_player1,
                       use_special, ts)
  ELSE ExecuteAndReset(b, attacker, defender, is_player1, use_special, ts)

\* reveal_and_execute_turn, the Trickster's log entry
TricksterLog(b, attacker) ==
  IF attacker.character_class = "Trickster"
  THEN log_battle_event(b, <<"Trickster's wildcard manipulation active!", 0>>)
  ELSE b

\* reveal_and_execute_turn, from "Set stance" to the end: an accepted reveal
AcceptedReveal(b, attacker, defender, is_player1, stance, use_special, ts) ==
  WildcardOrTurn(
    TricksterLog(ApplyDot(SetStance(b, is_player1, stance), is_player1), attacker),
    attacker, defender, is_player1, use_special, ts)

\* the checks of a reveal without the cooldown check
RevealCheckNoCooldown(b, is_player1, stance, salt, use_special, ts) ==
  IF b.is_finished THEN "BattleAlreadyFinished"
  ELSE IF ~check_battle_timeout(b, ts) THEN "BattleExpired"
  ELSE IF ~IsTurnOf(b, is_player1) THEN "NotYourTurn"
  ELSE IF ~StanceVerified(b, is_player1, stance, salt) THEN "InvalidStanceReveal"
  ELSE "Ok"

\* reveal_and_execute_turn, the checks: the error returned, or "Ok"
RevealCheck(b, is_player1, stance, salt, use_special, ts) ==
  IF b.is_finished THEN "BattleAlreadyFinished"
  ELSE IF ~check_battle_timeout(b, ts) THEN "BattleExpired"
  ELSE IF ~IsTurnOf(b, is_player1) THEN "NotYourTurn"
  ELSE IF ~StanceVerified(b, is_player1, stance, salt) THEN "InvalidStanceReveal"
  ELSE IF use_special /\ CooldownOf(b, is_player1) # 0 THEN "SpecialOnCooldown"
  ELSE "Ok"

\* pub fn reveal_and_execute_turn
reveal_and_execute_turn(b, attacker_key, attacker, defender, stance, salt, use_special, ts) ==
  IF RevealCheck(b, b.player1 = attacker_key, stance, salt, use_special, ts) = "Ok"
  THEN Ok(AcceptedReveal(b, attacker, defender, b.player1 = attacker_key, stance,
                         use_special, ts))
  ELSE Err(RevealCheck(b, b.player1 = attacker_key, stance, salt, use_special, ts), b)

\* Option<bool> of a wildcard decision
Some(accept) == IF accept THEN "Accept" ELSE "Decline"
\* a reading that takes every recorded decision for an accept
is_some(d) == d # None

unwrap_or_false(d) == d = "Accept"

\* resolve_wildcard_with_decisions, the DoubleOrNothing arm
ResolveDoubleOrNothing(b, p1_accepts, p2_accepts, ts) ==
  IF p1_accepts /\ p2_accepts
  THEN IF (simple_random(ts, b.turn_number, 7) % 2) = 0
       THEN log_battle_event(b, <<"Double or Nothing: Both MISS next turn!", 0>>)
       ELSE log_battle_event(
              [b EXCEPT !.player1_combo = b.player1_combo + 2,
                        !.player2_combo = b.player2_combo + 2],
              <<"Double or Nothing: Both get DOUBLE damage!", 0>>)
  ELSE IF p1_accepts
  THEN IF (simple_random(ts, b.turn_number, 7) % 2) = 0
       THEN log_battle_event([b EXCEPT !.player1_miss_count = b.player1_miss_count + 1],
                             <<"P1 Double or Nothing: MISS!", 0>>)
       ELSE log_battle_event([b EXCEPT !.player1_combo = b.player1_combo + 3],
                             <<"P1 Double or Nothing: Triple damage!", 0>>)
  ELSE IF p2_accepts
  THEN IF (simple_random(ts, b.turn_number, 8) % 2) = 0
       THEN log_battle_event([b EXCEPT !.player2_miss_count = b.player2_miss_count + 1],
                             <<"P2 Double or Nothing: MISS!", 0>>)
       ELSE log_battle_event([b EXCEPT !.player2_combo = b.player2_combo + 3],
                             <<"P2 Double or Nothing: Triple damage!", 0>>)
  ELSE b

\* a DeathRoulette that draws each accepting side's fate on its own: with
\* both accepting, both sides can fall to 1 health
DeathRouletteDrawnPerSide(b, p1_accepts, p2_accepts, ts) ==
  [b EXCEPT !.player1_hp = IF p1_accepts THEN 1 ELSE b.player1_hp,
            !.player2_hp = IF p2_accepts
                           THEN (IF (simple_random(ts, b.turn_number, 10) % 2) = 0
                                 THEN 1 ELSE 999)
                           ELSE b.player2_hp]

\* resolve_wildcard_with_decisions, the DeathRoulette arm
ResolveDeathRoulette(b, p1_accepts, p2_accepts, ts) ==
  IF p1_accepts /\ p2_accepts
  THEN IF (simple_random(ts, b.turn_number, 9) % 2) = 0
       THEN log_battle_event(
              [b EXCEPT !.player1_hp = 1, !.player2_hp = b.player2_hp + 100],
              <<"Death Roulette: P1 nearly killed, P2 healed!", 0>>)
       ELSE log_battle_event(
              [b EXCEPT !.player2_hp = 1, !.player1_hp = b.player1_hp + 100],
              <<"Death Roulette: P2 nearly killed, P1 healed!", 0>>)
  ELSE IF p1_accepts
  THEN IF (simple_random(ts, b.turn_number, 9) % 2) = 0
       THEN log_battle_event([b EXCEPT !.player1_hp = 1],
                             <<"P1 Death Roulette: Nearly killed!", 0>>)
       ELSE log_battle_event([b EXCEPT !.player1_hp = 999],
                             <<"P1 Death Roulette: Massive heal!", 0>>)
  ELSE IF p2_accepts
  THEN IF (simple_random(ts, b.turn_number, 10) % 2) = 0
       THEN log_battle_event([b EXCEPT !.player2_hp = 1],
                             <<"P2 Death Roulette: Nearly killed!", 0>>)
       ELSE log_battle_event([b EXCEPT !.player2_hp = 999],
                             <<"P2 Death Roulette: Massive heal!", 0>>)
  ELSE b

\* a wildcard reset that clears the stance commitments too
ResetWildcardAndCommitments(b) ==
  ResetCommitments([b EXCEPT !.wildcard_active = FALSE,
                             !.wildcard_player1_decision = None,
                             !.wildcard_player2_decision = None])

\* resolve_wildcard_with_decisions, "Reset wildcard state"
ResetWildcardState(b) ==
  [b EXCEPT !.wildcard_active = FALSE,
            !.wildcard_player1_decision = None,
            !.wildcard_player2_decision = None]

\* fn resolve_wildcard_with_decisions: the battle record after the call
resolve_wildcard_with_decisions(b, ts) ==
  LET p1_accepts == unwrap_or_false(b.wildcard_player1_decision)
      p2_accepts == unwrap_or_false(b.wildcard_player2_decision)
      resolved ==
        CASE b.wildcard_type = "DoubleOrNothing" ->
               ResolveDoubleOrNothing(b, p1_accepts, p2_accepts, ts)
          [] b.wildcard_type = "DeathRoulette" ->
               ResolveDeathRoulette(b, p1_accepts, p2_accepts, ts)
          [] OTHER -> b
  IN  ResetWildcardState(resolved)

\* a decide_wildcard that records the decision before it checks the deadline
\* and keeps the write when the check fails
DecideThenCheckDeadline(b, character_key, accept, ts) ==
  IF ~b.wildcard_active THEN Err("NoActiveWildcard", b)
  ELSE IF ~(ts <= b.wildcard_decision_deadline)
  THEN Err("DecisionTimeout",
           IF b.player1 = character_key
           THEN [b EXCEPT !.wildcard_player1_decision = Some(accept)]
           ELSE [b EXCEPT !.wildcard_player2_decision = Some(accept)])
  ELSE Ok(b)

\* pub fn decide_wildcard
decide_wildcard(b, character_key, accept, ts) ==
  IF ~b.wildcard_active THEN Err("NoActiveWildcard", b)
  ELSE IF ~(ts <= b.wildcard_decision_deadline) THEN Err("DecisionTimeout", b)
  ELSE
    LET is_player1 == b.player1 = character_key
        decided == IF is_player1
                   THEN [b EXCEPT !.wildcard_player1_decision = Some(accept)]
                   ELSE [b EXCEPT !.wildcard_player2_decision = Some(accept)]
    IN  IF decided.wildcard_player1_decision # None
           /\ decided.wildcard_player2_decision # None
        THEN Ok(resolve_wildcard_with_decisions(decided, ts))
        ELSE Ok(decided)

\* a deadline test that also holds at the deadline itself
DeadlineReached(b, ts) == ts >= b.wildcard_decision_deadline

\* resolve_wildcard_timeout, the require! on the decision deadline
DeadlinePassed(b, ts) == ts > b.wildcard_decision_deadline

\* pub fn resolve_wildcard_timeout
resolve_wildcard_timeout(b, ts) ==
  IF ~b.wildcard_active THEN Err("NoActiveWildcard", b)
  ELSE IF ~DeadlinePassed(b, ts) THEN Err("DecisionNotExpired", b)
  ELSE
    LET d1 == IF b.wildcard_player1_decision = None
              THEN log_battle_event([b EXCEPT !.wildcard_player1_decision = Some(FALSE)],
                                    <<"Player 1 auto-declined wildcard (timeout)", 0>>)
              ELSE b
        d2 == IF d1.wildcard_player2_decision = None
              THEN log_battle_event([d1 EXCEPT !.wildcard_player2_decision = Some(FALSE)],
                                    <<"Player 2 auto-declined wildcard (timeout)", 0>>)
              ELSE d1
    IN  Ok(resolve_wildcard_with_decisions(d2, ts))

\* a turn timeout that fires as soon as the full timeout has elapsed
TurnTimeoutReached(b, ts) == (ts - b.last_action_time) >= TURN_TIMEOUT_SECONDS

\* check_timeout, time_since_last_action > TURN_TIMEOUT_SECONDS
TurnTimedOut(b, ts) == (ts - b.last_action_time) > TURN_TIMEOUT_SECONDS

\* a check_timeout that refuses an expired battle
CheckTimeoutUnlessExpired(b, ts) ==
  IF b.is_finished THEN Err("BattleAlreadyFinished", b)
  ELSE IF ~check_battle_timeout(b, ts) THEN Err("BattleExpired", b)
  ELSE IF TurnTimedOut(b, ts)
  THEN Ok(log_battle_event(
            [b EXCEPT !.is_finished = TRUE,
                      !.abandoned = TRUE,
                      !.winner = IF b.current_turn = 1 THEN 2 ELSE 1],
            <<"Player forfeited (timeout)", b.current_turn>>))
  ELSE Ok(b)

\* pub fn check_timeout
check_timeout(b, ts) ==
  IF b.is_finished THEN Err("BattleAlreadyFinished", b)
  ELSE IF TurnTimedOut(b, ts)
  THEN Ok(log_battle_event(
            [b EXCEPT !.is_finished = TRUE,
                      !.abandoned = TRUE,
                      !.winner = IF b.current_turn = 1 THEN 2 ELSE 1],
            <<"Player forfeited (timeout)", b.current_turn>>))
  ELSE Ok(b)

\* fn choose_ai_stance
choose_ai_stance(b, ai_char, player_char, ts) ==
  LET ai_hp_percent == (b.player2_hp * 100) \div ai_char.max_hp
      player_hp_percent == (b.player1_hp * 100) \div player_char.max_hp
  IN  IF ai_hp_percent < 30
      THEN IF (simple_random(ts, b.turn_number, 20) % 2) = 0
           THEN "Defensive" ELSE "Berserker"
      ELSE IF player_hp_percent < 30 THEN "Aggressive"
      ELSE IF b.player1_stance = "Aggressive" THEN "Counter"
      ELSE LET roll == simple_random(ts, b.turn_number, 21) % 5
           IN  CASE roll = 0 -> "Aggressive"
                 [] roll = 1 -> "Defensive"
                 [] roll = 2 -> "Counter"
                 [] roll = 3 -> "Berserker"
                 [] OTHER -> "Balanced"

\* a special-ability rule that compares twice the health with the max health
AiUseSpecialBelowExactHalf(b, ai_char) ==
  b.player2_special_cooldown = 0 /\ (2 * b.player2_hp) < ai_char.max_hp

\* execute_ai_turn, ai_use_special
AiUseSpecial(b, ai_char) ==
  b.player2_special_cooldown = 0 /\ b.player2_hp < (ai_char.max_hp \div 2)

\* pub fn execute_ai_turn
execute_ai_turn(b, ai_char, player_char, ts) ==
  IF ~b.is_vs_ai THEN Err("NotAiBattle", b)
  ELSE IF b.is_finished THEN Err("BattleAlreadyFinished", b)
  ELSE IF b.current_turn # 2 THEN Err("NotAiTurn", b)
  ELSE
    Ok(SetLastActionTime(
         execute_battle_turn(
           [b EXCEPT !.player2_stance = choose_ai_stance(b, ai_char, player_char, ts)],
           ai_char, player_char, FALSE, AiUseSpecial(b, ai_char), ts),
         ts))

(***************************************************************************)
(* Progression                                                             *)
(***************************************************************************)
\* fn get_required_xp
get_required_xp(level) ==
  IF level < 11
  THEN <<0, 100, 250, 450, 700, 1000, 1400, 1900, 2500, 3200, 4000>>[level + 1]
  ELSE 4000 + ((level - 10) * 500)

\* fn update_rank_tier
update_rank_tier(character) ==
  [character EXCEPT !.rank_tier =
     IF character.mmr <= 999 THEN "Bronze"
     ELSE IF character.mmr <= 1499 THEN "Silver"
     ELSE IF character.mmr <= 1999 THEN "Gold"
     ELSE IF character.mmr <= 2499 THEN "Platinum"
     ELSE IF character.mmr <= 2999 THEN "Diamond"
     ELSE "Master"]

Contains(seq, x) == \E i \in 1..Len(seq) : seq[i] = x

\* fn check_achievements
check_achievements(character) ==
  LET push(c, cond, a) ==
        IF cond /\ ~Contains(c.achievements, a)
        THEN [c EXCEPT !.achievements = Append(c.achievements, a)]
        ELSE c
      a1 == push(character, character.total_wins = 1, "FirstWin")
      a2 == push(a1, a1.total_wins = 10, "TenWins")
      a3 == push(a2, a2.total_wins = 100, "HundredWins")
  IN  push(a3, a3.current_hp = a3.max_hp, "Flawless")

\* a level-up check without the level cap
LevelUpUncapped(character) ==
  IF character.xp >= get_required_xp(character.level)
  THEN [character EXCEPT !.level = character.level + 1,
                         !.xp = character.xp - get_required_xp(character.level),
                         !.max_hp = character.max_hp + 5,
                         !.current_hp = character.max_hp + 5]
  ELSE character

\* update_winner_stats, "Check for level up"
LevelUp(character) ==
  LET required_xp == get_required_xp(character.level)
  IN  IF character.xp >= required_xp /\ character.level < 50
      THEN [character EXCEPT !.level = character.level + 1,
                             !.xp = character.xp - required_xp,
                             !.max_hp = character.max_hp + 5,
                             !.current_hp = character.max_hp + 5,
                             !.base_damage_min = character.base_damage_min + 2,
                             !.base_damage_max = character.base_damage_max + 2,
                             !.crit_chance = character.crit_chance + 1,
                             !.defense = character.defense + 1]
      ELSE character

\* fn update_winner_stats
update_winner_stats(character, xp, level_diff) ==
  LET won == [character EXCEPT !.xp = character.xp + xp,
                               !.total_wins = character.total_wins + 1,
                               !.season_wins = character.season_wins + 1,
                               !.current_hp = character.max_hp]
      levelled == LevelUp(check_achievements(won))
  IN  update_rank_tier([levelled EXCEPT !.mmr = levelled.mmr + (25 + (level_diff * 5))])

\* fn update_loser_stats
update_loser_stats(character, level_diff) ==
  update_rank_tier(
    [character EXCEPT !.total_losses = character.total_losses + 1,
                      !.season_losses = character.season_losses + 1,
                      !.current_hp = character.max_hp,
                      !.mmr = saturating_sub(character.mmr, 15 + (level_diff * 3))])

\* a reward that pays every category but Tournament the Ranked base
BaseXpRankedOnly(match_type) ==
  IF match_type = "Tournament" THEN 200 ELSE 100

\* finalize_battle, "Calculate XP reward"
BaseXp(match_type) ==
  CASE match_type = "Casual" -> 50
    [] match_type = "Ranked" -> 100
    [] match_type = "Tournament" -> 200
    [] match_type = "Staked" -> 150

\* pub fn finalize_battle: the result and the two Character accounts after it
finalize_battle(b, player1_char, player2_char) ==
  IF ~b.is_finished
  THEN [res |-> "BattleNotFinished", p1 |-> player1_char, p2 |-> player2_char]
  ELSE IF b.winner = NoWinner
  THEN [res |-> "NoWinner", p1 |-> player1_char, p2 |-> player2_char]
  ELSE
    LET winner_is_player1 == b.winner = 1
        level_diff == Abs(player1_char.level - player2_char.level)
        xp_bonus == IF level_diff > 5 THEN 50 ELSE level_diff * 10
        total_xp == BaseXp(b.match_type) + xp_bonus
    IN  IF winner_is_player1
        THEN [res |-> "Ok",
              p1 |-> update_winner_stats(player1_char, total_xp, level_diff),
              p2 |-> update_loser_stats(player2_char, level_diff)]
        ELSE [res |-> "Ok",
              p1 |-> update_loser_stats(player1_char, level_diff),
              p2 |-> update_winner_stats(player2_char, total_xp, level_diff)]

\* pub fn heal_character: the result and the Character account after it
heal_character(character) ==
  IF ~(character.current_hp < character.max_hp)
  THEN [res |-> "AlreadyFullHealth", character |-> character]
  ELSE [res |-> "Ok",
        character |-> [character EXCEPT !.current_hp = character.max_hp]]

(***************************************************************************)
(* The state machine.  A step is an instruction that returns Ok, or a      *)
(* clock advance.  An instruction that returns an error changes no account *)
(* (the runtime discards its writes), so it is no step: what a call        *)
(* returns in a state is read off its handler.                             *)
(***************************************************************************)
\* hist: bookkeeping of the run, read by no handler: the number of
\* instructions that returned Ok and the number explored, the last of them
\* and whether it executed a turn with the special ability, the successful
\* finalize_battle calls among them, whether a decision wildcard was
\* resolved since the last accepted reveal, and the clock value of the last
\* commit or reveal accepted from the turn-holder since it holds the turn
\* (the empty sequence when there is none).
Init ==
  \E s \in Setups :
    /\ chars = [k \in Keys |->
                  create_character(IF k = Player1Key THEN s.c1
                                   ELSE IF k = Player2Key THEN s.c2 ELSE s.c3)]
    /\ battle = create_battle(chars[Player1Key], chars[Player2Key],
                              s.match_type, s.stake_amount, s.is_vs_ai, CreatedAt)
    /\ now = CreatedAt
    /\ hist = [ops |-> 0, limit |-> MaxOps, last_op |-> "create_battle",
               special_used |-> FALSE, finalized |-> 0, wc_resolved |-> FALSE,
               holder_acted |-> <<>>]

\* the cluster clock advances
Tick ==
  /\ ~battle.is_finished
  /\ \E t \in Times : t > now /\ now' = t
  /\ UNCHANGED <<battle, chars, hist>>

\* the Character account a caller passes as the defender of its attack: the
\* battle's other player
DefenderOf(c) == IF c = Player1Key THEN Player2Key ELSE Player1Key

\* the calls of the handlers in the current state
CommitCall(c, h) == commit_stance(battle, c, h, now)
RevealCall(c, stance, salt, use_special) ==
  reveal_and_execute_turn(battle, c, chars[c], chars[DefenderOf(c)], stance, salt,
                          use_special, now)
DecideCall(c, accept) == decide_wildcard(battle, c, accept, now)
ResolveTimeoutCall == resolve_wildcard_timeout(battle, now)
CheckTimeoutCall == check_timeout(battle, now)
AiTurnCall == execute_ai_turn(battle, chars[Player2Key], chars[Player1Key], now)
FinalizeCall == finalize_battle(battle, chars[Player1Key], chars[Player2Key])

CommitStance(c, h) ==
  LET r == CommitCall(c, h)
  IN  /\ r.res = "Ok"
      /\ hist.ops < hist.limit
      /\ battle' = r.b
      /\ hist' = [hist EXCEPT !.ops = @ + 1, !.last_op = "commit_stance",
                              !.special_used = FALSE,
                              !.holder_acted = <<now>>]
      /\ UNCHANGED <<chars, now>>

\* whether an Ok call that took b to r.b executed a turn, or ended
\* wildcard-pending
Executed(b, r) == r.res = "Ok" /\ r.b.turn_number # b.turn_number
Suspended(b, r) == r.res = "Ok" /\ r.b.turn_number = b.turn_number

RevealAndExecuteTurn(c, stance, salt, use_special) ==
  LET r == RevealCall(c, stance, salt, use_special)
  IN  /\ r.res = "Ok"
      /\ hist.ops < hist.limit
      /\ battle' = r.b
      /\ hist' = [hist EXCEPT !.ops = @ + 1,
                              !.last_op = "reveal_and_execute_turn",
                              !.special_used = use_special /\ Executed(battle, r),
                              !.wc_resolved = FALSE,
                              !.holder_acted = IF Suspended(battle, r) THEN <<now>>
                                               ELSE <<>>]
      /\ UNCHANGED <<chars, now>>

\* whether the step from b to b2 resolved the pending wildcard
Resolved(b, b2) == b.wildcard_active /\ ~b2.wildcard_active

DecideWildcard(c, accept) ==
  LET r == DecideCall(c, accept)
  IN  /\ r.res = "Ok"
      /\ hist.ops < hist.limit
      /\ battle' = r.b
      /\ hist' = [hist EXCEPT !.ops = @ + 1,
                              !.last_op = "decide_wildcard",
                              !.special_used = FALSE,
                              !.wc_resolved = @ \/ Resolved(battle, r.b)]
      /\ UNCHANGED <<chars, now>>

ResolveWildcardTimeout ==
  LET r == ResolveTimeoutCall
  IN  /\ r.res = "Ok"
      /\ hist.ops < hist.limit
      /\ battle' = r.b
      /\ hist' = [hist EXCEPT !.ops = @ + 1,
                              !.last_op = "resolve_wildcard_timeout",
                              !.special_used = FALSE,
                              !.wc_resolved = @ \/ Resolved(battle, r.b)]
      /\ UNCHANGED <<chars, now>>

CheckTimeout ==
  LET r == CheckTimeoutCall
  IN  /\ r.res = "Ok"
      /\ hist.ops < hist.limit
      /\ battle' = r.b
      /\ hist' = [hist EXCEPT !.ops = @ + 1, !.last_op = "check_timeout",
                              !.special_used = FALSE]
      /\ UNCHANGED <<chars, now>>

ExecuteAiTurn ==
  LET r == AiTurnCall
  IN  /\ r.res = "Ok"
      /\ hist.ops < hist.limit
      /\ battle' = r.b
      /\ hist' = [hist EXCEPT !.ops = @ + 1,
                              !.last_op = "execute_ai_turn",
                              !.special_used = AiUseSpecial(battle, chars[Player2Key]),
                              !.wc_resolved = FALSE,
                              !.holder_acted = <<>>]
      /\ UNCHANGED <<chars, now>>

FinalizeBattle ==
  LET r == FinalizeCall
  IN  /\ r.res = "Ok"
      /\ hist.ops < hist.limit
      /\ chars' = [chars EXCEPT ![Player1Key] = r.p1, ![Player2Key] = r.p2]
      /\ hist' = [hist EXCEPT !.ops = @ + 1,
                              !.last_op = "finalize_battle",
                              !.special_used = FALSE,
                              !.finalized = @ + 1]
      /\ UNCHANGED <<battle, now>>

Next ==
  \/ Tick
  \/ \E c \in Keys, h \in HashInputs : CommitStance(c, h)
  \/ \E c \in Keys, stance \in StanceInputs, salt \in Salts, use_special \in BOOLEAN :
       RevealAndExecuteTurn(c, stance, salt, use_special)
  \/ \E c \in Keys, accept \in BOOLEAN : DecideWildcard(c, accept)
  \/ ResolveWildcardTimeout
  \/ CheckTimeout
  \/ ExecuteAiTurn
  \/ FinalizeBattle

Spec == Init /\ [][Next]_vars

(***************************************************************************)
(* Duels: longer battles between the two players alone, who commit the     *)
(* stance they reveal.  The same instructions, with fewer callers and      *)
(* inputs, explored over more accepted instructions.                       *)
(***************************************************************************)
\* the duels explored
DuelSetups ==
  { [c1 |-> "Mage", c2 |-> "Warrior", c3 |-> "Assassin",
     match_type |-> "Ranked", stake_amount |-> 0, is_vs_ai |-> FALSE],
    [c1 |-> "Warrior", c2 |-> "Mage", c3 |-> "Assassin",
     match_type |-> "Casual", stake_amount |-> 0, is_vs_ai |-> TRUE] }

\* the clock values of a duel: the creation time, the start of block 104
\* (DoubleOrNothing triggers) and a value past that wildcard's deadline
DuelTimes == {CreatedAt, Block(104), Block(104) + 11}

InitDuel ==
  \E s \in DuelSetups :
    /\ chars = [k \in Keys |->
                  create_character(IF k = Player1Key THEN s.c1
                                   ELSE IF k = Player2Key THEN s.c2 ELSE s.c3)]
    /\ battle = create_battle(chars[Player1Key], chars[Player2Key],
                              s.match_type, s.stake_amount, s.is_vs_ai, CreatedAt)
    /\ now = CreatedAt
    /\ hist = [ops |-> 0, limit |-> MaxDuelOps, last_op |-> "create_battle",
               special_used |-> FALSE, finalized |-> 0, wc_resolved |-> FALSE,
               holder_acted |-> <<>>]

TickDuel ==
  /\ ~battle.is_finished
  /\ \E t \in DuelTimes : t > now /\ now' = t
  /\ UNCHANGED <<battle, chars, hist>>

NextDuel ==
  \/ TickDuel
  \/ \E c \in {Player1Key, Player2Key}, stance \in StanceInputs :
       CommitStance(c, computed_hash(stance, 42))
  \/ \E c \in {Player1Key, Player2Key}, stance \in StanceInputs, use_special \in BOOLEAN :
       RevealAndExecuteTurn(c, stance, 42, use_special)
  \/ \E c \in {Player1Key, Player2Key} : DecideWildcard(c, TRUE)
  \/ ResolveWildcardTimeout
  \/ ExecuteAiTurn

SpecDuel == InitDuel /\ [][NextDuel]_vars

(***************************************************************************)
(* A second battle that shares a character with the first: the outsider's  *)
(* character fought player 1's character in a battle of its own (another   *)
(* battle account, seeded by the two characters), which player 1's         *)
(* character won by forfeiture.  Its finalize_battle runs between the      *)
(* instructions of the first battle.                                       *)
(***************************************************************************)
\* the other battle account: created with the outsider's character as
\* player 1 and player 1's character as player 2, and ended by check_timeout
OtherBattle ==
  check_timeout(
    create_battle(create_character("Assassin"), chars[Player1Key],
                  "Ranked", 0, FALSE, CreatedAt),
    CreatedAt + TURN_TIMEOUT_SECONDS + 1).b

\* finalize_battle of the other battle, called once
FinalizeOtherBattle ==
  LET r == finalize_battle(OtherBattle, chars[OutsiderKey], chars[Player1Key])
  IN  /\ r.res = "Ok"
      /\ hist.ops < hist.limit
      /\ hist.finalized = 0
      /\ chars' = [chars EXCEPT ![OutsiderKey] = r.p1, ![Player1Key] = r.p2]
      /\ hist' = [hist EXCEPT !.ops = @ + 1,
                              !.last_op = "finalize_other_battle",
                              !.special_used = FALSE,
                              !.finalized = @ + 1]
      /\ UNCHANGED <<battle, now>>

NextShared ==
  \/ \E c \in {Player1Key, Player2Key}, stance \in StanceInputs :
       CommitStance(c, computed_hash(stance, 42))
  \/ \E c \in {Player1Key, Player2Key}, stance \in StanceInputs, use_special \in BOOLEAN :
       RevealAndExecuteTurn(c, stance, 42, use_special)
  \/ ExecuteAiTurn
  \/ FinalizeOtherBattle

SpecShared == InitDuel /\ [][NextShared]_vars

(***************************************************************************)
(* Battles under an advancing clock and a fair check_timeout: the players  *)
(* and the AI path act a bounded number of times, the clock keeps          *)
(* advancing and check_timeout can be called at any time.                  *)
(***************************************************************************)
\* the clock values of these battles: the creation time, the start of block
\* 104 (DoubleOrNothing triggers) and the expiry of the battle
LiveTimes == {CreatedAt, Block(104), CreatedAt + BATTLE_EXPIRY_SECONDS}

InitLive ==
  \E s \in Setups :
    /\ chars = [k \in Keys |->
                  create_character(IF k = Player1Key THEN s.c1
                                   ELSE IF k = Player2Key THEN s.c2 ELSE s.c3)]
    /\ battle = create_battle(chars[Player1Key], chars[Player2Key],
                              s.match_type, s.stake_amount, s.is_vs_ai, CreatedAt)
    /\ now = CreatedAt
    /\ hist = [ops |-> 0, limit |-> MaxLiveOps, last_op |-> "create_battle",
               special_used |-> FALSE, finalized |-> 0, wc_resolved |-> FALSE,
               holder_acted |-> <<>>]

\* the clock advances to a later value of LiveTimes, or to the first value
\* at which the turn timeout has passed
TickLive ==
  /\ ~battle.is_finished
  /\ \E t \in LiveTimes \cup {battle.last_action_time + TURN_TIMEOUT_SECONDS + 1} :
       t > now /\ now' = t
  /\ UNCHANGED <<battle, chars, hist>>

\* check_timeout, callable by anyone at any time
CheckTimeoutAnytime ==
  /\ CheckTimeoutCall.res = "Ok"
  /\ battle' = CheckTimeoutCall.b
  /\ hist' = [hist EXCEPT !.last_op = "check_timeout", !.special_used = FALSE]
  /\ UNCHANGED <<chars, now>>

NextLive ==
  \/ TickLive
  \/ \E c \in {Player1Key, Player2Key}, stance \in StanceInputs :
       CommitStance(c, computed_hash(stance, 42))
  \/ \E c \in {Player1Key, Player2Key}, stance \in StanceInputs :
       RevealAndExecuteTurn(c, stance, 42, FALSE)
  \/ \E c \in {Player1Key, Player2Key} : DecideWildcard(c, TRUE)
  \/ ResolveWildcardTimeout
  \/ ExecuteAiTurn
  \/ CheckTimeoutAnytime

SpecLive ==
  InitLive /\ [][NextLive]_vars /\ WF_vars(TickLive) /\ WF_vars(CheckTimeoutAnytime)

(***************************************************************************)
(* Progression of veteran characters: characters with a career of          *)
(* Tournament wins behind them meet in a battle that ended by forfeiture;  *)
(* finalize_battle is called with any two of the Character accounts (its   *)
(* accounts are not tied to the battle's players) and heal_character with  *)
(* any of them.  Here a heal_character call is a step whether it returns   *)
(* Ok or not, recorded in hist.                                            *)
(***************************************************************************)
\* the character after `wins` finalized Tournament wins against opponents of
\* its own level
\* (the tests of the level make the evaluation strict in the character)
RECURSIVE Career(_, _)
Career(character, wins) ==
  IF character.level < 1 \/ wins = 0 THEN character
  ELSE IF wins % 2 = 1
  THEN LET before == Career(character, wins - 1)
       IN  IF before.level < 1 THEN before
           ELSE update_winner_stats(before, BaseXp("Tournament"), 0)
  ELSE Career(Career(character, wins \div 2), wins \div 2)

\* careers: a new character, a level-49 character one win short of level 50
\* and a level-50 character one win short of the xp a further level would take
CareerWins == {0, VeteranWins, VeteranWins + 120}
MageCareers == {Career(create_character("Mage"), wins) : wins \in CareerWins}
WarriorCareers == {Career(create_character("Warrior"), wins) : wins \in CareerWins}

InitProgress ==
  \E c1 \in MageCareers, c2 \in WarriorCareers, match_type \in {"Ranked", "Tournament"} :
    /\ chars = [k \in Keys |->
                  IF k = Player1Key THEN c1
                  ELSE IF k = Player2Key THEN c2
                  ELSE create_character("Assassin")]
    /\ battle = check_timeout(
                  create_battle(chars[Player1Key], chars[Player2Key],
                                match_type, 0, FALSE, CreatedAt),
                  CreatedAt + TURN_TIMEOUT_SECONDS + 1).b
    /\ now = CreatedAt + TURN_TIMEOUT_SECONDS + 1
    /\ hist = [ops |-> 0, limit |-> MaxProgressOps, last_op |-> "check_timeout",
               special_used |-> FALSE, finalized |-> 0, wc_resolved |-> FALSE,
               holder_acted |-> <<>>]

FinalizeWith(k1, k2) ==
  LET r == finalize_battle(battle, chars[k1], chars[k2])
  IN  /\ k1 # k2
      /\ r.res = "Ok"
      /\ hist.ops < hist.limit
      /\ chars' = [chars EXCEPT ![k1] = r.p1, ![k2] = r.p2]
      /\ hist' = [hist EXCEPT !.ops = @ + 1,
                              !.last_op = "finalize_battle",
                              !.finalized = @ + 1]
      /\ UNCHANGED <<battle, now>>

HealCharacter(k) ==
  /\ hist.ops < hist.limit
  /\ chars' = [chars EXCEPT ![k] = heal_character(chars[k]).character]
  /\ hist' = [hist EXCEPT !.ops = @ + 1, !.last_op = "heal_character"]
  /\ UNCHANGED <<battle, now>>

NextProgress ==
  \/ \E k1 \in Keys, k2 \in Keys : FinalizeWith(k1, k2)
  \/ \E k \in Keys : HealCharacter(k)

SpecProgress == InitProgress /\ [][NextProgress]_vars

(***************************************************************************)
(* Long battles between two defensive Tanks.  The turn-holder commits once *)
(* and reveals whenever no wildcard is pending; nobody decides a pending   *)
(* wildcard, the clock passes its deadline and it times out.  In block 104 *)
(* every reveal triggers a wildcard, so the battle logs three entries per  *)
(* round without executing a turn and fills the battle log; in block 110   *)
(* no wildcard triggers and every reveal executes a turn.                  *)
(***************************************************************************)
LogTimes == {Block(104), Block(110)}
LogStance == "Defensive"

InitLog ==
  \E t \in LogTimes, is_vs_ai \in BOOLEAN :
    /\ chars = [k \in Keys |->
                  create_character(IF k = OutsiderKey THEN "Assassin" ELSE "Tank")]
    /\ battle = create_battle(chars[Player1Key], chars[Player2Key],
                              "Casual", 0, is_vs_ai, t)
    /\ now = t
    /\ hist = [ops |-> 0, limit |-> MaxLogOps, last_op |-> "create_battle",
               special_used |-> FALSE, finalized |-> 0, wc_resolved |-> FALSE,
               holder_acted |-> <<>>]

\* the clock passes the deadline of the pending wildcard
TickLog ==
  /\ ~battle.is_finished
  /\ battle.wildcard_active
  /\ ~DeadlinePassed(battle, now)
  /\ now' = battle.wildcard_decision_deadline + 1
  /\ UNCHANGED <<battle, chars, hist>>

CommitOnce(c) ==
  /\ ~battle.player1_stance_committed
  /\ ~battle.player2_stance_committed
  /\ CommitStance(c, computed_hash(LogStance, 42))

RevealUnlessPending(c) ==
  /\ ~battle.wildcard_active
  /\ RevealAndExecuteTurn(c, LogStance, 42, FALSE)

NextLog ==
  \/ TickLog
  \/ \E c \in {Player1Key, Player2Key} : CommitOnce(c)
  \/ \E c \in {Player1Key, Player2Key} : RevealUnlessPending(c)
  \/ ResolveWildcardTimeout
  \/ ExecuteAiTurn

SpecLog == InitLog /\ [][NextLog]_vars

(***************************************************************************)
(* Battles against the scripted opponent.  The opponent's character is new *)
(* (level 1) or has one Tournament win behind it (level 2, odd max_hp);    *)
(* the player commits and reveals honestly, anyone calls execute_ai_turn.  *)
(* Some of the battles are two-player battles, in which it is rejected.    *)
(***************************************************************************)
AiOpponents ==
  {Career(create_character(class), wins) : class \in {"Mage", "Tank"}, wins \in {0, 1}}

\* clock values in blocks where no wildcard triggers
AiTimes == {CreatedAt, Block(110)}

\* the stances the player commits and reveals
AiStanceInputs == {"Balanced", "Berserker"}

InitAi ==
  \E class \in {"Warrior", "Assassin"}, opponent \in AiOpponents, is_vs_ai \in BOOLEAN :
    /\ chars = [k \in Keys |->
                  IF k = Player2Key THEN opponent ELSE create_character(class)]
    /\ battle = create_battle(chars[Player1Key], chars[Player2Key],
                              "Casual", 0, is_vs_ai, CreatedAt)
    /\ now = CreatedAt
    /\ hist = [ops |-> 0, limit |-> MaxAiOps, last_op |-> "create_battle",
               special_used |-> FALSE, finalized |-> 0, wc_resolved |-> FALSE,
               holder_acted |-> <<>>]

TickAi ==
  /\ ~battle.is_finished
  /\ \E t \in AiTimes : t > now /\ now' = t
  /\ UNCHANGED <<battle, chars, hist>>

NextAi ==
  \/ TickAi
  \/ \E stance \in AiStanceInputs : CommitStance(Player1Key, computed_hash(stance, 42))
  \/ \E stance \in AiStanceInputs, use_special \in BOOLEAN :
       RevealAndExecuteTurn(Player1Key, stance, 42, use_special)
  \/ ExecuteAiTurn

SpecAi == InitAi /\ [][NextAi]_vars

(***************************************************************************)
(* Battles with a decision wildcard.  The battle is created 5 seconds      *)
(* before the end of block 104 (a reveal triggers DoubleOrNothing) or of   *)
(* block 107 (DeathRoulette); the decisions are made in the same block or  *)
(* 5 seconds later in the next one, which flips the parity of the          *)
(* resolution roll; in block 110 no wildcard triggers and a reveal         *)
(* executes its turn.                                                      *)
(***************************************************************************)
WildTimes == {Block(105) - 5, Block(105), Block(108) - 5, Block(108), Block(110)}
WildStance == "Balanced"

InitWild ==
  \E t \in {Block(105) - 5, Block(108) - 5}, class \in {"Warrior", "Mage"} :
    /\ chars = [k \in Keys |->
                  create_character(IF k = Player1Key THEN class
                                   ELSE IF k = Player2Key THEN "Tank" ELSE "Assassin")]
    /\ battle = create_battle(chars[Player1Key], chars[Player2Key],
                              "Ranked", 0, FALSE, t)
    /\ now = t
    /\ hist = [ops |-> 0, limit |-> MaxWildOps, last_op |-> "create_battle",
               special_used |-> FALSE, finalized |-> 0, wc_resolved |-> FALSE,
               holder_acted |-> <<>>]

TickWild ==
  /\ ~battle.is_finished
  /\ \E t \in WildTimes : t > now /\ now' = t
  /\ UNCHANGED <<battle, chars, hist>>

NextWild ==
  \/ TickWild
  \/ \E c \in {Player1Key, Player2Key} : CommitStance(c, computed_hash(WildStance, 42))
  \/ \E c \in {Player1Key, Player2Key} : RevealAndExecuteTurn(c, WildStance, 42, FALSE)
  \/ \E c \in {Player1Key, Player2Key}, accept \in BOOLEAN : DecideWildcard(c, accept)
  \/ ResolveWildcardTimeout

SpecWild == InitWild /\ [][NextWild]_vars

(***************************************************************************)
(* Forfeits around a pending wildcard: a battle created late in block 107, *)
(* where a reveal triggers DeathRoulette, with check_timeout and the       *)
(* decisions in any order.  The clock keeps advancing after the battle has *)
(* finished.                                                               *)
(***************************************************************************)
ForfeitTimes == {Block(108) - 45, Block(108) - 5, Block(110)}
ForfeitStance == "Balanced"

InitForfeit ==
  \E class \in {"Warrior", "Mage"} :
    /\ chars = [k \in Keys |->
                  create_character(IF k = Player1Key THEN class
                                   ELSE IF k = Player2Key THEN "Tank" ELSE "Assassin")]
    /\ battle = create_battle(chars[Player1Key], chars[Player2Key],
                              "Ranked", 0, FALSE, Block(108) - 45)
    /\ now = Block(108) - 45
    /\ hist = [ops |-> 0, limit |-> MaxForfeitOps, last_op |-> "create_battle",
               special_used |-> FALSE, finalized |-> 0, wc_resolved |-> FALSE,
               holder_acted |-> <<>>]

TickForfeit ==
  /\ \E t \in ForfeitTimes : t > now /\ now' = t
  /\ UNCHANGED <<battle, chars, hist>>

NextForfeit ==
  \/ TickForfeit
  \/ \E c \in {Player1Key, Player2Key} : CommitStance(c, computed_hash(ForfeitStance, 42))
  \/ \E c \in {Player1Key, Player2Key} : RevealAndExecuteTurn(c, ForfeitStance, 42, FALSE)
  \/ \E c \in {Player1Key, Player2Key}, accept \in BOOLEAN : DecideWildcard(c, accept)
  \/ ResolveWildcardTimeout
  \/ CheckTimeout

SpecForfeit == InitForfeit /\ [][NextForfeit]_vars

(***************************************************************************)
(* Stakes.  The battle account is created with its rent-exempt reserve,    *)
(* create_battle adds the stakes to it, and check_timeout and              *)
(* finalize_battle take the winner's payment out of it.  Here hist also    *)
(* holds the account's balance (lamports), what create_battle locked, what *)
(* has been released, and whether the cluster rejects a transaction that   *)
(* leaves an account a balance that is neither zero nor rent-exempt.       *)
(***************************************************************************)
\* the rent-exempt reserve of the battle account, in units of the model
BattleRent == 10
\* the stakes the creator chooses
EscrowStakes == {BattleRent \div 2, BattleRent}
EscrowTimes == {CreatedAt, CreatedAt + TURN_TIMEOUT_SECONDS + 1}

\* create_battle, "Lock stakes if applicable": what the two transfers add
LockedAtCreate(stake_amount, is_vs_ai) ==
  IF stake_amount > 0
  THEN stake_amount + (IF ~is_vs_ai THEN stake_amount ELSE 0)
  ELSE 0

\* `**battle.to_account_info().try_borrow_mut_lamports()? -= amount`: the
\* transaction fails when the amount exceeds the balance, and where the
\* cluster enforces rent exemption, when the balance left is neither zero
\* nor the reserve
CanRelease(lamports, amount, rent_enforced) ==
  /\ amount <= lamports
  /\ rent_enforced => (lamports - amount = 0 \/ lamports - amount >= BattleRent)

\* check_timeout, "Return stakes to winner": what a forfeit pays
CheckTimeoutRelease(b, ts) ==
  IF ~b.is_finished /\ TurnTimedOut(b, ts) /\ b.stake_amount > 0
  THEN b.stake_amount * 2
  ELSE 0

\* finalize_battle, "Transfer stakes to winner": what an accepted call pays
FinalizeRelease(b) ==
  IF b.winner = 1
  THEN (IF b.stake_amount > 0 THEN b.stake_amount * 2 ELSE 0)
  ELSE (IF b.stake_amount > 0 /\ ~b.is_vs_ai THEN b.stake_amount * 2 ELSE 0)

InitEscrow ==
  \E stake_amount \in EscrowStakes, is_vs_ai \in BOOLEAN, rent_enforced \in BOOLEAN :
    /\ chars = [k \in Keys |->
                  create_character(IF k = Player1Key THEN "Warrior"
                                   ELSE IF k = Player2Key THEN "Mage" ELSE "Assassin")]
    /\ battle = create_battle(chars[Player1Key], chars[Player2Key],
                              "Staked", stake_amount, is_vs_ai, CreatedAt)
    /\ now = CreatedAt
    /\ hist = [ops |-> 0, limit |-> MaxEscrowOps, last_op |-> "create_battle",
               special_used |-> FALSE, finalized |-> 0, wc_resolved |-> FALSE,
               holder_acted |-> <<>>,
               lamports |-> BattleRent + LockedAtCreate(stake_amount, is_vs_ai),
               locked |-> LockedAtCreate(stake_amount, is_vs_ai),
               released |-> 0,
               rent_enforced |-> rent_enforced]

TickEscrow ==
  /\ ~battle.is_finished
  /\ \E t \in EscrowTimes : t > now /\ now' = t
  /\ UNCHANGED <<battle, chars, hist>>

CheckTimeoutPaying ==
  /\ CheckTimeoutCall.res = "Ok"
  /\ CanRelease(hist.lamports, CheckTimeoutRelease(battle, now), hist.rent_enforced)
  /\ hist.ops < hist.limit
  /\ battle' = CheckTimeoutCall.b
  /\ hist' = [hist EXCEPT !.ops = @ + 1, !.last_op = "check_timeout",
                          !.special_used = FALSE,
                          !.lamports = @ - CheckTimeoutRelease(battle, now),
                          !.released = @ + CheckTimeoutRelease(battle, now)]
  /\ UNCHANGED <<chars, now>>

FinalizePaying ==
  /\ FinalizeCall.res = "Ok"
  /\ CanRelease(hist.lamports, FinalizeRelease(battle), hist.rent_enforced)
  /\ hist.ops < hist.limit
  /\ chars' = [chars EXCEPT ![Player1Key] = FinalizeCall.p1,
                            ![Player2Key] = FinalizeCall.p2]
  /\ hist' = [hist EXCEPT !.ops = @ + 1, !.last_op = "finalize_battle",
                          !.special_used = FALSE,
                          !.finalized = @ + 1,
                          !.lamports = @ - FinalizeRelease(battle),
                          !.released = @ + FinalizeRelease(battle)]
  /\ UNCHANGED <<battle, now>>

NextEscrow ==
  \/ TickEscrow
  \/ \E stance \in StanceInputs : CommitStance(Player1Key, computed_hash(stance, 42))
  \/ \E stance \in StanceInputs : RevealAndExecuteTurn(Player1Key, stance, 42, FALSE)
  \/ ExecuteAiTurn
  \/ CheckTimeoutPaying
  \/ FinalizePaying

SpecEscrow == InitEscrow /\ [][NextEscrow]_vars

(***************************************************************************)
(* GamblersFallacy after DoubleOrNothing: a battle created in block 200,   *)
(* where a reveal triggers DoubleOrNothing and the resolution roll is      *)
(* even; in block 207 a reveal triggers GamblersFallacy; in block 210 no   *)
(* wildcard triggers and the crit roll is 10.                              *)
(***************************************************************************)
FallacyTimes == {Block(200), Block(207), Block(210)}
FallacyStance == "Balanced"

InitFallacy ==
  \E class \in {"Warrior", "Tank"} :
    /\ chars = [k \in Keys |->
                  create_character(IF k = Player1Key THEN class
                                   ELSE IF k = Player2Key THEN "Tank" ELSE "Assassin")]
    /\ battle = create_battle(chars[Player1Key], chars[Player2Key],
                              "Ranked", 0, FALSE, Block(200))
    /\ now = Block(200)
    /\ hist = [ops |-> 0, limit |-> MaxFallacyOps, last_op |-> "create_battle",
               special_used |-> FALSE, finalized |-> 0, wc_resolved |-> FALSE,
               holder_acted |-> <<>>]

TickFallacy ==
  /\ ~battle.is_finished
  /\ \E t \in FallacyTimes : t > now /\ now' = t
  /\ UNCHANGED <<battle, chars, hist>>

NextFallacy ==
  \/ TickFallacy
  \/ \E c \in {Player1Key, Player2Key} : CommitStance(c, computed_hash(FallacyStance, 42))
  \/ \E c \in {Player1Key, Player2Key} : RevealAndExecuteTurn(c, FallacyStance, 42, FALSE)
  \/ \E c \in {Player1Key, Player2Key}, accept \in BOOLEAN : DecideWildcard(c, accept)
  \/ ResolveWildcardTimeout

SpecFallacy == InitFallacy /\ [][NextFallacy]_vars

(***************************************************************************)
(* The stance layer on its own: apply_stance_modifiers is applied once to  *)
(* a damage, a pair of stances and an attacking side on a new battle.      *)
(* Here hist also holds the damage (the input, then the result) and the    *)
(* arguments of the call.                                                  *)
(***************************************************************************)
InitStance ==
  \E damage \in 0..MaxDamage, class \in {"Mage", "Tank"} :
    /\ chars = [k \in Keys |->
                  create_character(IF k = Player1Key THEN class
                                   ELSE IF k = Player2Key THEN "Warrior" ELSE "Assassin")]
    /\ battle = create_battle(chars[Player1Key], chars[Player2Key],
                              "Casual", 0, FALSE, CreatedAt)
    /\ now = CreatedAt
    /\ hist = [ops |-> 0, limit |-> 1, last_op |-> "create_battle",
               special_used |-> FALSE, finalized |-> 0, wc_resolved |-> FALSE,
               holder_acted |-> <<>>,
               damage |-> damage, attacker_stance |-> "Balanced",
               defender_stance |-> "Balanced", is_player1 |-> TRUE]

ApplyStanceModifiers(attacker_stance, defender_stance, is_player1) ==
  /\ hist.ops < hist.limit
  /\ battle' = apply_stance_modifiers(hist.damage, attacker_stance, defender_stance,
                                      is_player1, battle).b
  /\ hist' = [hist EXCEPT
                !.ops = @ + 1,
                !.last_op = "apply_stance_modifiers",
                !.damage = apply_stance_modifiers(hist.damage, attacker_stance,
                                                  defender_stance, is_player1, battle).damage,
                !.attacker_stance = attacker_stance,
                !.defender_stance = defender_stance,
                !.is_player1 = is_player1]
  /\ UNCHANGED <<chars, now>>

NextStance ==
  \E attacker_stance \in Stances, defender_stance \in Stances, is_player1 \in BOOLEAN :
    ApplyStanceModifiers(attacker_stance, defender_stance, is_player1)

SpecStance == InitStance /\ [][NextStance]_vars

(***************************************************************************)
(* Properties.  A call's result in a state is read off its handler; a      *)
(* step is an accepted call.                                               *)
(***************************************************************************)
Players == {Player1Key, Player2Key}
\* the step is the acceptance of a call of instruction op
AcceptedIs(op) == hist'.ops = hist.ops + 1 /\ hist'.last_op = op
\* the side (1 or 2) a player's character fights on
SideOf(c) == IF c = battle.player1 THEN 1 ELSE 2
Live == ~battle.is_finished /\ (now - battle.created_at) < BATTLE_EXPIRY_SECONDS
Committed(b, c) ==
  IF c = Player1Key THEN b.player1_stance_committed ELSE b.player2_stance_committed
StoredHash(b, c) ==
  IF c = Player1Key THEN b.player1_stance_hash ELSE b.player2_stance_hash
Commitments(b) ==
  <<b.player1_stance_committed, b.player1_stance_hash,
    b.player2_stance_committed, b.player2_stance_hash>>
Progress(c) == <<c.xp, c.level, c.total_wins, c.total_losses, c.mmr>>
\* the hashes of every stance and salt a caller can reveal, and the zero array
AllHashes == {computed_hash(s, k) : s \in Stances, k \in Salts} \cup {ZeroHash}

\* C1: while a decision-required wildcard is pending (wildcard_active), no
\* step advances the turn counter or flips the turn indicator.
C1_NoTurnWhileWildcardPending ==
  [][battle.wildcard_active =>
       /\ battle'.turn_number = battle.turn_number
       /\ battle'.current_turn = battle.current_turn]_vars

\* C2: in every reachable state, if wildcard_active is false then both
\* wildcard decision fields are unset.
C2_DecisionsUnsetWhenInactive ==
  ~battle.wildcard_active =>
    /\ battle.wildcard_player1_decision = None
    /\ battle.wildcard_player2_decision = None

\* C3: after finalize_battle has succeeded for the battle, no later step
\* changes either combatant's XP, level, win/loss counters or mmr.
C3_FinalizedOnce ==
  [][hist.finalized >= 1 =>
       \A k \in Players : Progress(chars'[k]) = Progress(chars[k])]_vars

\* C4: a reveal that triggers a decision-required wildcard leaves both sides'
\* battle-local health, the turn counter and the turn indicator as they were.
C4_PendingRevealAppliesNoDamage ==
  [][(AcceptedIs("reveal_and_execute_turn")
        /\ ~battle.wildcard_active /\ battle'.wildcard_active) =>
       /\ battle'.player1_hp = battle.player1_hp
       /\ battle'.player2_hp = battle.player2_hp
       /\ battle'.turn_number = battle.turn_number
       /\ battle'.current_turn = battle.current_turn]_vars

\* C5: on a non-terminal, non-expired battle, for the side holding the turn
\* and use_special allowed by the cooldown, a reveal is accepted if and only
\* if the hash of the stance bytes and the salt bytes equals the side's
\* stored hash; on a mismatch it fails with InvalidStanceReveal and the
\* battle record is unchanged.
C5_RevealAcceptedIffHashMatches ==
  Live =>
    \A c \in Players, stance \in Stances, salt \in Salts, use_special \in BOOLEAN :
      (SideOf(c) = battle.current_turn
         /\ (use_special =>
               (IF c = Player1Key THEN battle.player1_special_cooldown
                ELSE battle.player2_special_cooldown) = 0)) =>
        IF StoredHash(battle, c) = hash(to_bytes(stance) \o to_le_bytes(salt))
        THEN RevealCall(c, stance, salt, use_special).res = "Ok"
        ELSE RevealCall(c, stance, salt, use_special) = Err("InvalidStanceReveal", battle)

\* a turn-holder with its commitment stored, whose honest reveal is accepted
\* and whose reveals of another stance or another salt are rejected
C5_Witness ==
  /\ Live
  /\ battle.current_turn = 2
  /\ battle.player2_stance_hash = computed_hash("Berserker", 42)
  /\ RevealCall(Player2Key, "Berserker", 42, FALSE).res = "Ok"
  /\ RevealCall(Player2Key, "Aggressive", 42, FALSE).res = "InvalidStanceReveal"
  /\ RevealCall(Player2Key, "Berserker", 298, FALSE).res = "InvalidStanceReveal"

\* C6: a side whose committed flag is false never gets a reveal accepted,
\* whatever stance, salt and use_special the call carries.
C6_NoRevealWithoutCommit ==
  \A c \in Keys, stance \in Stances, salt \in Salts, use_special \in BOOLEAN :
    ~Committed(battle, IF c = Player1Key THEN Player1Key ELSE Player2Key) =>
      RevealCall(c, stance, salt, use_special).res # "Ok"

\* player 1 holds the turn again after two executed turns, has not committed
\* in this turn, and its reveal of the stance it committed two turns ago is
\* rejected
C6_Witness ==
  /\ Live
  /\ battle.turn_number = 2
  /\ battle.current_turn = 1
  /\ ~battle.player1_stance_committed
  /\ battle.player1_stance = "Aggressive"
  /\ RevealCall(Player1Key, "Aggressive", 42, FALSE).res = "InvalidStanceReveal"

\* C7 as stated: commit_stance or reveal_and_execute_turn for the side that
\* does not hold the turn fails with NotYourTurn and leaves the battle
\* record unchanged.
C7_WrongSideNotYourTurn ==
  \A c \in Players :
    SideOf(c) # battle.current_turn =>
      /\ \A h \in AllHashes : CommitCall(c, h) = Err("NotYourTurn", battle)
      /\ \A stance \in Stances, salt \in Salts, use_special \in BOOLEAN :
           RevealCall(c, stance, salt, use_special) = Err("NotYourTurn", battle)

\* C7, amended: commit_stance or reveal_and_execute_turn for the side that
\* does not hold the turn always fails and leaves the battle record
\* unchanged; the error is NotYourTurn on a non-terminal, non-expired
\* battle, BattleAlreadyFinished on a terminal one and BattleExpired on a
\* non-terminal expired one.
C7_WrongSideRejected ==
  \A c \in Players :
    SideOf(c) # battle.current_turn =>
      LET e == IF battle.is_finished THEN "BattleAlreadyFinished"
               ELSE IF ~Live THEN "BattleExpired"
               ELSE "NotYourTurn"
      IN  /\ \A h \in AllHashes : CommitCall(c, h) = Err(e, battle)
          /\ \A stance \in Stances, salt \in Salts, use_special \in BOOLEAN :
               RevealCall(c, stance, salt, use_special) = Err(e, battle)

\* player 1 holds a commitment for its turn and player 2, who does not hold
\* the turn, is turned away by both calls, also with player 1's stance and salt
C7_Witness ==
  /\ Live
  /\ battle.current_turn = 1
  /\ battle.player1_stance_hash = computed_hash("Aggressive", 42)
  /\ CommitCall(Player2Key, computed_hash("Aggressive", 42)).res = "NotYourTurn"
  /\ RevealCall(Player2Key, "Aggressive", 42, FALSE).res = "NotYourTurn"

\* C8 as stated: once the turn-holder has committed, a further commit_stance
\* of that side fails with AlreadyCommitted, whatever hash it carries, and
\* the battle record (the stored hash with it) is unchanged.
C8_SecondCommitAlreadyCommitted ==
  \A c \in Players :
    (SideOf(c) = battle.current_turn /\ Committed(battle, c)) =>
      \A h \in AllHashes : CommitCall(c, h) = Err("AlreadyCommitted", battle)

\* C8, amended: once the turn-holder has committed, a further commit_stance
\* of that side always fails, whatever hash it carries, and the battle
\* record (the stored hash with it) is unchanged; the error is
\* AlreadyCommitted on a non-terminal, non-expired battle,
\* BattleAlreadyFinished on a terminal one and BattleExpired on a
\* non-terminal expired one.
C8_SecondCommitRejected ==
  \A c \in Players :
    (SideOf(c) = battle.current_turn /\ Committed(battle, c)) =>
      \A h \in AllHashes :
        CommitCall(c, h) =
          Err(IF battle.is_finished THEN "BattleAlreadyFinished"
              ELSE IF ~Live THEN "BattleExpired"
              ELSE "AlreadyCommitted", battle)

\* player 2 has committed in its turn and its second commit, with another
\* hash, fails with AlreadyCommitted
C8_Witness ==
  /\ Live
  /\ battle.current_turn = 2
  /\ battle.player2_stance_committed
  /\ battle.player2_stance_hash = computed_hash("Aggressive", 42)
  /\ CommitCall(Player2Key, computed_hash("Berserker", 42)).res = "AlreadyCommitted"

\* C9: a reveal that ends wildcard-pending, decide_wildcard and
\* resolve_wildcard_timeout leave both sides' committed flags and hashes
\* unchanged, and after every turn executed through reveal both sides are
\* uncommitted with an all-zero hash.
C9_CommitmentsClearedOnlyByTurn ==
  [][/\ (AcceptedIs("decide_wildcard") \/ AcceptedIs("resolve_wildcard_timeout")) =>
          Commitments(battle') = Commitments(battle)
     /\ AcceptedIs("reveal_and_execute_turn") =>
          IF battle'.turn_number = battle.turn_number
          THEN Commitments(battle') = Commitments(battle)
          ELSE Commitments(battle') = <<FALSE, ZeroHash, FALSE, ZeroHash>>]_vars

\* a decision wildcard was triggered by player 1's reveal and has been
\* resolved, and player 1's commitment is still stored
C9_Witness ==
  /\ hist.wc_resolved
  /\ ~battle.wildcard_active
  /\ battle.turn_number = 0
  /\ battle.player1_stance_committed
  /\ battle.player1_stance_hash = computed_hash("Aggressive", 42)

\* C10: after a decision-required wildcard has been resolved, the
\* turn-holder's next accepted reveal executes the turn: the turn counter
\* advances by one and no wildcard is pending after the call.
C10_RevealAfterResolutionExecutes ==
  [][(hist.wc_resolved /\ AcceptedIs("reveal_and_execute_turn")) =>
       /\ battle'.turn_number = battle.turn_number + 1
       /\ ~battle'.wildcard_active]_vars

\* C11: during one wildcard decision phase a side's recorded decision is
\* never replaced: a decide_wildcard step leaves a decision that was already
\* recorded as it was, or clears it by resolving the wildcard.
C11_DecisionRecordedOnce ==
  [][AcceptedIs("decide_wildcard") =>
       /\ battle.wildcard_player1_decision # None =>
            battle'.wildcard_player1_decision \in {battle.wildcard_player1_decision, None}
       /\ battle.wildcard_player2_decision # None =>
            battle'.wildcard_player2_decision \in {battle.wildcard_player2_decision, None}]_vars

\* the clock values around the decision deadline, and the current one
DeadlineProbes ==
  {battle.wildcard_decision_deadline - 1, battle.wildcard_decision_deadline,
   battle.wildcard_decision_deadline + 1, now}

\* C12: in every reachable state and at every clock value, decide_wildcard
\* fails with NoActiveWildcard when no wildcard is active and with
\* DecisionTimeout when one is active and the clock is past the deadline;
\* resolve_wildcard_timeout fails with NoActiveWildcard when none is active
\* and with DecisionNotExpired when one is active and the clock is at or
\* before the deadline; a failing call leaves the battle unchanged, and for
\* an active wildcard exactly one of the two calls returns Ok.
C12_DecisionWindow ==
  \A ts \in DeadlineProbes :
    /\ \A c \in Keys, accept \in BOOLEAN :
         IF ~battle.wildcard_active
         THEN decide_wildcard(battle, c, accept, ts) = Err("NoActiveWildcard", battle)
         ELSE IF ts > battle.wildcard_decision_deadline
         THEN decide_wildcard(battle, c, accept, ts) = Err("DecisionTimeout", battle)
         ELSE /\ decide_wildcard(battle, c, accept, ts).res = "Ok"
              /\ resolve_wildcard_timeout(battle, ts).res # "Ok"
    /\ IF ~battle.wildcard_active
       THEN resolve_wildcard_timeout(battle, ts) = Err("NoActiveWildcard", battle)
       ELSE IF ts <= battle.wildcard_decision_deadline
       THEN resolve_wildcard_timeout(battle, ts) = Err("DecisionNotExpired", battle)
       ELSE /\ resolve_wildcard_timeout(battle, ts).res = "Ok"
            /\ \A c \in Keys, accept \in BOOLEAN :
                 decide_wildcard(battle, c, accept, ts).res # "Ok"

\* a wildcard is pending and the clock is past its deadline: a decision is
\* turned away with DecisionTimeout and the timeout resolution is accepted
C12_Witness ==
  /\ battle.wildcard_active
  /\ now > battle.wildcard_decision_deadline
  /\ DecideCall(Player2Key, TRUE).res = "DecisionTimeout"
  /\ ResolveTimeoutCall.res = "Ok"
  /\ decide_wildcard(battle, Player2Key, TRUE, battle.wildcard_decision_deadline).res = "Ok"

\* the fields a wildcard resolution can change
WildcardStakes(b) ==
  <<b.player1_hp, b.player2_hp, b.player1_combo, b.player2_combo,
    b.player1_miss_count, b.player2_miss_count>>

\* C13: when no side has accepted, resolve_wildcard_timeout changes neither
\* side's health, combo counter nor miss counter, and after it
\* wildcard_active is false and both decision fields are unset.
C13_TimeoutDefaultsToDecline ==
  [][(AcceptedIs("resolve_wildcard_timeout")
        /\ battle.wildcard_player1_decision # "Accept"
        /\ battle.wildcard_player2_decision # "Accept") =>
       /\ WildcardStakes(battle') = WildcardStakes(battle)
       /\ ~battle'.wildcard_active
       /\ battle'.wildcard_player1_decision = None
       /\ battle'.wildcard_player2_decision = None]_vars

\* a pending DeathRoulette on which nobody decided has been resolved by the
\* timeout: both sides were auto-declined and kept their full health
C13_Witness ==
  /\ hist.last_op = "resolve_wildcard_timeout"
  /\ battle.wildcard_type = "DeathRoulette"
  /\ ~battle.wildcard_active
  /\ Len(battle.battle_log) >= 2
  /\ battle.battle_log[Len(battle.battle_log) - 1]
       = <<"Player 1 auto-declined wildcard (timeout)", 0>>
  /\ battle.battle_log[Len(battle.battle_log)]
       = <<"Player 2 auto-declined wildcard (timeout)", 0>>
  /\ battle.player1_hp = chars[Player1Key].max_hp
  /\ battle.player2_hp = chars[Player2Key].max_hp

(***************************************************************************)
(* C14: in every reachable battle state, a battle whose finished flag is   *)
(* set has a recorded winner, and the winner is side 1 or side 2.          *)
(***************************************************************************)
C14_TerminalHasWinner ==
  battle.is_finished => battle.winner \in {1, 2}

\* a turn has ended the battle by health depletion and a winner is recorded
C14_Witness ==
  /\ battle.is_finished
  /\ ~battle.abandoned
  /\ hist.last_op = "reveal_and_execute_turn"
  /\ battle.player1_hp = 0 \/ battle.player2_hp = 0
  /\ battle.winner \in {1, 2}

(***************************************************************************)
(* C15: a battle is finished as soon as a side's health in the battle is   *)
(* zero: in every state reached after an instruction returns, a battle     *)
(* that is not finished has both sides' health above zero.                 *)
(***************************************************************************)
C15_ZeroHealthIsTerminal ==
  ~battle.is_finished => (battle.player1_hp > 0 /\ battle.player2_hp > 0)

(***************************************************************************)
(* C16: when a turn ends the battle by health depletion, the recorded      *)
(* winner has health above zero and the loser has health zero; the two     *)
(* sides are never both at zero.                                           *)
(***************************************************************************)
C16_WinnerIsSurvivor ==
  (battle.is_finished /\ ~battle.abandoned) =>
    /\ battle.winner \in {1, 2}
    /\ (IF battle.winner = 1 THEN battle.player1_hp ELSE battle.player2_hp) > 0
    /\ (IF battle.winner = 1 THEN battle.player2_hp ELSE battle.player1_hp) = 0

(***************************************************************************)
(* C17: the turn indicator is always 1 or 2.  Every executed turn, by a    *)
(* reveal or by the AI path, hands the turn to the other side and adds     *)
(* exactly one to the turn counter; commit_stance, a reveal that ends      *)
(* wildcard-pending, decide_wildcard, resolve_wildcard_timeout and         *)
(* check_timeout leave both unchanged.                                     *)
(***************************************************************************)
TurnFlipped ==
  /\ battle'.current_turn = 3 - battle.current_turn
  /\ battle'.turn_number = battle.turn_number + 1

TurnKept ==
  /\ battle'.current_turn = battle.current_turn
  /\ battle'.turn_number = battle.turn_number

C17_TurnAlternates ==
  /\ [](battle.current_turn \in {1, 2})
  /\ [][/\ AcceptedIs("execute_ai_turn") => TurnFlipped
        /\ AcceptedIs("reveal_and_execute_turn") =>
             IF battle'.wildcard_active THEN TurnKept ELSE TurnFlipped
        /\ (\/ AcceptedIs("commit_stance")
            \/ AcceptedIs("decide_wildcard")
            \/ AcceptedIs("resolve_wildcard_timeout")
            \/ AcceptedIs("check_timeout")) => TurnKept]_vars

\* side 2 has executed the second turn of the battle and the turn is back
\* with side 1
C17_Witness ==
  /\ hist.last_op \in {"reveal_and_execute_turn", "execute_ai_turn"}
  /\ ~battle.wildcard_active
  /\ battle.turn_number = 2
  /\ battle.current_turn = 1

(***************************************************************************)
(* C18: right after a side uses its special ability its cooldown is 2; on  *)
(* each later turn that side itself takes the cooldown goes down by        *)
(* exactly 1, never below 0; a turn taken by the opponent, and every       *)
(* instruction that executes no turn, leaves it as it is.                  *)
(***************************************************************************)
Cooldown(b, side) ==
  IF side = 1 THEN b.player1_special_cooldown ELSE b.player2_special_cooldown

\* the step is an executed turn: a turn of the AI path, or an accepted reveal
\* that does not end wildcard-pending
TurnExecuted ==
  \/ AcceptedIs("execute_ai_turn")
  \/ AcceptedIs("reveal_and_execute_turn") /\ ~battle'.wildcard_active

C18_CooldownCountsOwnTurns ==
  /\ [](\A side \in {1, 2} : Cooldown(battle, side) \in 0..2)
  /\ [][/\ TurnExecuted =>
             /\ Cooldown(battle', battle.current_turn) =
                  IF hist'.special_used THEN 2
                  ELSE IF Cooldown(battle, battle.current_turn) = 0 THEN 0
                  ELSE Cooldown(battle, battle.current_turn) - 1
             /\ Cooldown(battle', 3 - battle.current_turn) =
                  Cooldown(battle, 3 - battle.current_turn)
        /\ ~TurnExecuted =>
             \A side \in {1, 2} : Cooldown(battle', side) = Cooldown(battle, side)]_vars

\* side 1 used its special on an earlier turn and has just taken another
\* turn without it: its cooldown went from 2 to 1
C18_Witness ==
  /\ ~battle.is_vs_ai
  /\ hist.last_op = "reveal_and_execute_turn"
  /\ ~hist.special_used
  /\ ~battle.wildcard_active
  /\ battle.current_turn = 2
  /\ battle.turn_number = 3
  /\ battle.player1_special_cooldown = 1

(***************************************************************************)
(* C19 as stated: reveal_and_execute_turn with use_special, called for a   *)
(* side whose cooldown is above 0, fails with SpecialOnCooldown and leaves *)
(* the battle record unchanged.                                            *)
(***************************************************************************)
C19_SpecialOnCooldownError ==
  \A c \in Keys, stance \in StanceInputs, salt \in Salts :
    Cooldown(battle, SideOf(c)) > 0 =>
      RevealCall(c, stance, salt, TRUE) = Err("SpecialOnCooldown", battle)

(***************************************************************************)
(* C19: a special ability takes effect only in a turn whose acting side    *)
(* had cooldown 0 at the start of the call.  reveal_and_execute_turn with  *)
(* use_special, called for a side whose cooldown is above 0, always fails  *)
(* and leaves the battle record unchanged; the error is SpecialOnCooldown  *)
(* when the battle is live, the side holds the turn and the reveal matches *)
(* its stored commitment, and the error of the earlier check otherwise.    *)
(* The AI path never uses the special while the AI side's cooldown is      *)
(* above 0.                                                                *)
(***************************************************************************)
C19_SpecialNeedsZeroCooldown ==
  /\ [](\A c \in Keys, stance \in StanceInputs, salt \in Salts :
          Cooldown(battle, SideOf(c)) > 0 =>
            LET r == RevealCall(c, stance, salt, TRUE)
            IN  /\ r.res # "Ok"
                /\ r.b = battle
                /\ (/\ Live
                    /\ SideOf(c) = battle.current_turn
                    /\ StoredHash(battle, c) = computed_hash(stance, salt))
                     => r.res = "SpecialOnCooldown")
  /\ [][(TurnExecuted /\ hist'.special_used) =>
         Cooldown(battle, battle.current_turn) = 0]_vars

\* side 1 is on cooldown, holds the turn and has committed: its matching
\* reveal with the special is refused with SpecialOnCooldown, the same
\* reveal with another salt with InvalidStanceReveal
C19_Witness ==
  /\ Live
  /\ battle.current_turn = 1
  /\ battle.player1_special_cooldown > 0
  /\ battle.player1_stance_hash = computed_hash("Aggressive", 42)
  /\ RevealCall(Player1Key, "Aggressive", 42, TRUE) = Err("SpecialOnCooldown", battle)
  /\ RevealCall(Player1Key, "Aggressive", 298, TRUE) = Err("InvalidStanceReveal", battle)

\* the clock values around the turn timeout, and the current one
TimeoutProbes ==
  {battle.last_action_time + TURN_TIMEOUT_SECONDS - 1,
   battle.last_action_time + TURN_TIMEOUT_SECONDS,
   battle.last_action_time + TURN_TIMEOUT_SECONDS + 1, now}

C21_ActiveHolderNotForfeited ==
  [][(/\ AcceptedIs("check_timeout")
      /\ ~battle.is_finished
      /\ battle'.is_finished
      /\ hist.holder_acted # <<>>)
       => now - hist.holder_acted[1] > 30]_vars

\* the clock values around the expiry of the battle, and the current one
ExpiryProbes ==
  {battle.created_at + 3599, battle.created_at + 3600, battle.created_at + 3601, now}

(***************************************************************************)
(* C22: on a battle that is not finished and whose age, the clock minus    *)
(* the creation time, is 3600 seconds or more, every commit_stance and     *)
(* every reveal_and_execute_turn fails with BattleExpired and leaves the   *)
(* battle unchanged; at an age below 3600 seconds no such call fails with  *)
(* BattleExpired.                                                          *)
(***************************************************************************)
C22_ExpiryRejectsCommitAndReveal ==
  ~battle.is_finished =>
    \A ts \in ExpiryProbes, c \in Keys :
      IF ts - battle.created_at >= 3600
      THEN /\ \A h \in {ZeroHash, battle.player1_stance_hash} :
                commit_stance(battle, c, h, ts) = Err("BattleExpired", battle)
           /\ \A stance \in StanceInputs, salt \in Salts, use_special \in BOOLEAN :
                reveal_and_execute_turn(battle, c, chars[c], chars[DefenderOf(c)],
                                        stance, salt, use_special, ts)
                  = Err("BattleExpired", battle)
      ELSE /\ \A h \in {ZeroHash, battle.player1_stance_hash} :
                commit_stance(battle, c, h, ts).res # "BattleExpired"
           /\ \A stance \in StanceInputs, use_special \in BOOLEAN :
                RevealCheck(battle, battle.player1 = c, stance, 42, use_special, ts)
                  # "BattleExpired"

\* the battle is exactly 3600 seconds old and not finished: the turn-holder's
\* matching reveal and a fresh commit are both refused with BattleExpired,
\* and one second earlier the same reveal passed the expiry check
C22_Witness ==
  /\ ~battle.is_finished
  /\ now - battle.created_at = 3600
  /\ battle.current_turn = 1
  /\ battle.player1_stance_hash = computed_hash("Aggressive", 42)
  /\ RevealCall(Player1Key, "Aggressive", 42, FALSE) = Err("BattleExpired", battle)
  /\ CommitCall(Player1Key, computed_hash("Berserker", 42)) = Err("BattleExpired", battle)
  /\ reveal_and_execute_turn(battle, Player1Key, chars[Player1Key], chars[Player2Key],
                             "Aggressive", 42, FALSE, now - 1).res = "Ok"

C25_OtherBattleChangesNoResult ==
  [][AcceptedIs("finalize_other_battle") =>
       /\ execute_ai_turn(battle, chars'[Player2Key], chars'[Player1Key], now) =
            execute_ai_turn(battle, chars[Player2Key], chars[Player1Key], now)
       /\ \A c \in Players, stance \in StanceInputs, use_special \in BOOLEAN :
            reveal_and_execute_turn(battle, c, chars'[c], chars'[DefenderOf(c)],
                                    stance, 42, use_special, now) =
              reveal_and_execute_turn(battle, c, chars[c], chars[DefenderOf(c)],
                                      stance, 42, use_special, now)]_vars

(***************************************************************************)
(* C26: an armed DOT ticks exactly once per turn the affected side takes.  *)
(* The first accepted reveal of a turn of a side with DOT turns left takes *)
(* one DOT turn and, when it ends wildcard-pending, exactly the DOT damage *)
(* off that side's health (down to zero at most); a further reveal of the  *)
(* same turn takes no DOT turn; and a turn of the AI path takes one DOT    *)
(* turn of side 2 when it has any left.  With 3 turns armed the DOT thus   *)
(* ticks on the side's next three own turns and not on the fourth.         *)
(***************************************************************************)
DotTurns(b, side) == IF side = 1 THEN b.player1_dot_turns ELSE b.player2_dot_turns
DotDamage(b, side) == IF side = 1 THEN b.player1_dot_damage ELSE b.player2_dot_damage
Health(b, side) == IF side = 1 THEN b.player1_hp ELSE b.player2_hp

\* the turn-holder has already revealed in the turn in progress: a wildcard
\* of this turn is pending or was resolved since that reveal
RevealedThisTurn == battle.wildcard_active \/ hist.wc_resolved

C26_DotTicksOncePerOwnTurn ==
  [][/\ AcceptedIs("execute_ai_turn") =>
          (DotTurns(battle, 2) > 0 => DotTurns(battle', 2) = DotTurns(battle, 2) - 1)
     /\ AcceptedIs("reveal_and_execute_turn") =>
          IF RevealedThisTurn
          THEN DotTurns(battle', battle.current_turn) >= DotTurns(battle, battle.current_turn)
          ELSE DotTurns(battle, battle.current_turn) > 0 =>
                 /\ DotTurns(battle', battle.current_turn)
                      = DotTurns(battle, battle.current_turn) - 1
                 /\ battle'.wildcard_active =>
                      Health(battle', battle.current_turn)
                        = IF Health(battle, battle.current_turn)
                               > DotDamage(battle, battle.current_turn)
                          THEN Health(battle, battle.current_turn)
                                 - DotDamage(battle, battle.current_turn)
                          ELSE 0]_vars

\* ---- C27 ----
\* the category bases and the level-difference bonus the claim states
CategoryBase(match_type) ==
  IF match_type = "Casual" THEN 50
  ELSE IF match_type = "Ranked" THEN 100
  ELSE IF match_type = "Tournament" THEN 200
  ELSE 150

WinnerKey == IF battle.winner = 1 THEN Player1Key ELSE Player2Key
LoserKey == IF battle.winner = 1 THEN Player2Key ELSE Player1Key
LevelDifference == Abs(chars[Player1Key].level - chars[Player2Key].level)
XpAward ==
  CategoryBase(battle.match_type)
    + (IF 10 * LevelDifference < 50 THEN 10 * LevelDifference ELSE 50)

\* what a finalize_battle step does besides the winner's xp field
FinalizeOutcome ==
  /\ chars'[WinnerKey].mmr = chars[WinnerKey].mmr + 25 + (5 * LevelDifference)
  /\ chars'[LoserKey].mmr =
       (IF chars[LoserKey].mmr > 15 + (3 * LevelDifference)
        THEN chars[LoserKey].mmr - (15 + (3 * LevelDifference)) ELSE 0)
  /\ \A k \in Players : chars'[k].current_hp = chars'[k].max_hp

FinalizeRejectedUnfinished ==
  ~battle.is_finished =>
    FinalizeCall = [res |-> "BattleNotFinished",
                    p1 |-> chars[Player1Key], p2 |-> chars[Player2Key]]

TierOfMmr(mmr) ==
  IF mmr < 1000 THEN "Bronze"
  ELSE IF mmr < 1500 THEN "Silver"
  ELSE IF mmr < 2000 THEN "Gold"
  ELSE IF mmr < 2500 THEN "Platinum"
  ELSE IF mmr < 3000 THEN "Diamond"
  ELSE "Master"

\* C28: in every reachable state, from creation on and after any number of
\* finalized battles, every character's rank tier is the tier derived from
\* its mmr.
C28_RankTierMatchesMmr ==
  \A k \in Keys : chars[k].rank_tier = TierOfMmr(chars[k].mmr)

\* ---- C29 ----
\* C29: after any sequence of create_character, finalize_battle and
\* heal_character, every character's current health is at most its max
\* health and its level is between 1 and 50; one finalize_battle raises no
\* character's level by more than one.
C29_HealthAndLevelBounds ==
  /\ [](\A k \in Keys : /\ chars[k].current_hp <= chars[k].max_hp
                         /\ chars[k].level >= 1
                         /\ chars[k].level <= 50)
  /\ [][\A k \in Keys : /\ chars'[k].level >= chars[k].level
                         /\ chars'[k].level <= chars[k].level + 1]_vars

\* a level-49 character won, reached level 50, won again at level 50 and
\* then called heal_character
C29_Witness ==
  /\ hist.last_op = "heal_character"
  /\ hist.finalized = 2
  /\ chars[Player2Key].level = 50
  /\ chars[Player2Key].total_wins = VeteranWins + 2
  /\ chars[Player2Key].current_hp = chars[Player2Key].max_hp

\* ---- C30 ----
\* whether seq `long` starts with seq `short`
StartsWith(long, short) ==
  /\ Len(short) <= Len(long)
  /\ \A i \in 1..Len(short) : long[i] = short[i]

LogProbes == {<<"Damage dealt: ", 12>>, <<"Player 1 auto-declined wildcard (timeout)", 0>>}

\* C30: the battle log is append-only and never longer than 50 entries: a
\* logging step appends the new entry at the end or, when 50 entries are
\* stored, leaves the log unchanged, and every step of a battle keeps the
\* entries already stored, in their places.
C30_LogAppendOnlyCapped ==
  /\ [](/\ Len(battle.battle_log) <= 50
        /\ \A event \in LogProbes :
             log_battle_event(battle, event).battle_log =
               (IF Len(battle.battle_log) = 50 THEN battle.battle_log
                ELSE battle.battle_log \o <<event>>))
  /\ [][StartsWith(battle'.battle_log, battle.battle_log)]_vars

\* a timed-out wildcard logged its two entries onto a log of 49: the first
\* filled the log and the second was dropped
C30_Witness ==
  /\ hist.last_op = "resolve_wildcard_timeout"
  /\ Len(battle.battle_log) = 50
  /\ battle.battle_log[50] = <<"Player 1 auto-declined wildcard (timeout)", 0>>
  /\ battle.battle_log[49][1] # battle.battle_log[50][1]

\* ---- C31 ----
\* what execute_ai_turn returns in the current state, the special ability
\* being used exactly when use_special holds: NotAiBattle on a two-player
\* battle, BattleAlreadyFinished on a finished vs-AI battle, NotAiTurn when
\* side 1 holds the turn, the record unchanged in all three; otherwise Ok
\* with exactly one turn executed for side 2 (the turn counter rises by one
\* and the turn passes to side 1), no commitment of side 2 needed, and side
\* 2's cooldown set (to 3, less the turn's own tick) exactly when the special
\* ability is used
AiTurnAsClaimed(use_special) ==
  IF ~battle.is_vs_ai THEN AiTurnCall = Err("NotAiBattle", battle)
  ELSE IF battle.is_finished THEN AiTurnCall = Err("BattleAlreadyFinished", battle)
  ELSE IF battle.current_turn # 2 THEN AiTurnCall = Err("NotAiTurn", battle)
  ELSE /\ AiTurnCall.res = "Ok"
       /\ ~battle.player2_stance_committed
       /\ AiTurnCall.b.turn_number = battle.turn_number + 1
       /\ AiTurnCall.b.current_turn = 1
       /\ (AiTurnCall.b.player2_special_cooldown = 2) <=> use_special
       /\ (AiTurnCall.b.player2_special_cooldown # 2) =>
            AiTurnCall.b.player2_special_cooldown + 1
              \in {battle.player2_special_cooldown, 1}

\* C31 as stated: execute_ai_turn is rejected unless the battle is vs-AI,
\* not finished and side 2 holds the turn; when accepted it executes exactly
\* one turn for side 2 without a commitment, using the special ability
\* exactly when side 2's cooldown is 0 and its battle-local health is below
\* half of the AI character's max health.
C31_AiTurnSpecialBelowHalf ==
  AiTurnAsClaimed(/\ battle.player2_special_cooldown = 0
                  /\ 2 * battle.player2_hp < chars[Player2Key].max_hp)

\* C31, amended: as above, with the health compared with half of the max
\* health rounded down.
C31_AiTurnSpecialBelowHalfRoundedDown ==
  AiTurnAsClaimed(/\ battle.player2_special_cooldown = 0
                  /\ battle.player2_hp < chars[Player2Key].max_hp \div 2)

\* the scripted opponent has just used its special ability
C31_Witness ==
  /\ hist.last_op = "execute_ai_turn"
  /\ battle.player2_special_cooldown = 2
  /\ battle.turn_number >= 4

\* ---- C32 ----
\* whether each side accepts when player c's call decide_wildcard(accept)
\* resolves the pending wildcard
AcceptsAfter(c, accept) ==
  [p1 |-> IF c = Player1Key THEN accept ELSE battle.wildcard_player1_decision = "Accept",
   p2 |-> IF c = Player2Key THEN accept ELSE battle.wildcard_player2_decision = "Accept"]
\* whether each side accepts when resolve_wildcard_timeout resolves it
AcceptsAtTimeout ==
  [p1 |-> battle.wildcard_player1_decision = "Accept",
   p2 |-> battle.wildcard_player2_decision = "Accept"]

\* the calls that resolve the pending wildcard in the current state: the
\* record after each, with the sides that accept
Resolutions ==
  {[b |-> DecideCall(c, accept).b, accepts |-> AcceptsAfter(c, accept)] :
     <<c, accept>> \in {x \in Players \X BOOLEAN :
                          /\ DecideCall(x[1], x[2]).res = "Ok"
                          /\ ~DecideCall(x[1], x[2]).b.wildcard_active}}
  \cup (IF ResolveTimeoutCall.res = "Ok"
        THEN {[b |-> ResolveTimeoutCall.b, accepts |-> AcceptsAtTimeout]}
        ELSE {})

Combo(b, side) == IF side = 1 THEN b.player1_combo ELSE b.player2_combo
MissCount(b, side) == IF side = 1 THEN b.player1_miss_count ELSE b.player2_miss_count
CountersKept(b, b2, side) ==
  Combo(b2, side) = Combo(b, side) /\ MissCount(b2, side) = MissCount(b, side)

\* the DoubleOrNothing matrix on the counters, from b to the resolved b2
DoubleOrNothingCounters(b, b2, accepts) ==
  /\ (accepts.p1 /\ accepts.p2) =>
       \/ CountersKept(b, b2, 1) /\ CountersKept(b, b2, 2)
       \/ /\ \A side \in {1, 2} : Combo(b2, side) = Combo(b, side) + 2
          /\ \A side \in {1, 2} : MissCount(b2, side) = MissCount(b, side)
  /\ \A side \in {1, 2} :
       (accepts.p1 # accepts.p2 /\ (IF side = 1 THEN accepts.p1 ELSE accepts.p2)) =>
         /\ \/ MissCount(b2, side) = MissCount(b, side) + 1 /\ Combo(b2, side) = Combo(b, side)
            \/ Combo(b2, side) = Combo(b, side) + 3 /\ MissCount(b2, side) = MissCount(b, side)
         /\ CountersKept(b, b2, 3 - side)

DoubleOrNothingResolved ==
  (battle.wildcard_active /\ battle.wildcard_type = "DoubleOrNothing") =>
    \A r \in Resolutions : DoubleOrNothingCounters(battle, r.b, r.accepts)

\* the last entry of the battle log is the record of a both-accept
\* DoubleOrNothing that came out as "both miss"
BothMissDrawn ==
  /\ Len(battle.battle_log) > 0
  /\ battle.battle_log[Len(battle.battle_log)][1] = "Double or Nothing: Both MISS next turn!"

\* C32: DoubleOrNothing resolves by the matrix: when both sides accept,
\* either both sides' next attacks deal no damage or both combo counters
\* rise by 2; when exactly one side accepts, that side's miss counter rises
\* by 1 or its combo rises by 3, and the other side's counters are unchanged.
C32_DoubleOrNothingMatrix ==
  /\ [](DoubleOrNothingResolved)
  /\ [][(BothMissDrawn /\ TurnExecuted) =>
          Health(battle', 3 - battle.current_turn)
            = Health(battle, 3 - battle.current_turn)]_vars

\* ---- C33 ----
\* the DeathRoulette matrix on the health of the two sides, from b to the
\* resolved b2
DeathRouletteHealth(b, b2, accepts) ==
  /\ (accepts.p1 /\ accepts.p2) =>
       \E side \in {1, 2} :
         /\ Health(b2, side) = 1
         /\ Health(b2, 3 - side) = Health(b, 3 - side) + 100
  /\ \A side \in {1, 2} :
       (accepts.p1 # accepts.p2 /\ (IF side = 1 THEN accepts.p1 ELSE accepts.p2)) =>
         /\ Health(b2, side) \in {1, 999}
         /\ Health(b2, 3 - side) = Health(b, 3 - side)
  /\ \A side \in {1, 2} : Health(b2, side) = 0 => Health(b, side) = 0

\* C33: DeathRoulette resolves by the matrix: when both sides accept,
\* exactly one side's health becomes 1 and the other side's health rises by
\* 100; when exactly one side accepts, that side's health becomes 1 or 999
\* and the other side's health is unchanged; no resolution sets a health to 0.
C33_DeathRouletteMatrix ==
  (battle.wildcard_active /\ battle.wildcard_type = "DeathRoulette") =>
    \A r \in Resolutions : DeathRouletteHealth(battle, r.b, r.accepts)

\* both sides accepted a DeathRoulette: side 1 fell to 1 health and side 2,
\* a Tank, rose from 150 to 250
C33_Witness ==
  /\ hist.last_op = "decide_wildcard"
  /\ battle.wildcard_type = "DeathRoulette"
  /\ ~battle.wildcard_active
  /\ battle.player1_hp = 1
  /\ battle.player2_hp = 250

\* ---- C34 ----
\* the damage after the attacker's modifier, as the claim states it
AfterAttackerModifier(d, attacker_stance, defender_stance) ==
  IF attacker_stance = "Aggressive" THEN (d * 130) \div 100
  ELSE IF attacker_stance = "Defensive" THEN (d * 70) \div 100
  ELSE IF attacker_stance = "Berserker" THEN d * 2
  ELSE IF attacker_stance = "Counter"
  THEN (IF defender_stance = "Aggressive" THEN (d * 150) \div 100 ELSE 0)
  ELSE d
\* and after the defender's modifier
AfterDefenderModifier(d, defender_stance) ==
  IF defender_stance = "Defensive" THEN d \div 2
  ELSE IF defender_stance = "Aggressive" THEN (d * 150) \div 100
  ELSE d
\* the health a Berserker attacker is left with: a quarter of the doubled
\* damage less, and no less than 0
AfterBerserker(hp, d) ==
  IF hp > ((d * 2) * 25) \div 100 THEN hp - (((d * 2) * 25) \div 100) ELSE 0

\* C34: the stance layer applies the attacker's modifier first and the
\* defender's second, truncating after each step; a Berserker attacker loses
\* a quarter of the doubled damage (saturating), and no other health changes.
C34_StanceLayer ==
  [][AcceptedIs("apply_stance_modifiers") =>
       /\ hist'.damage =
            AfterDefenderModifier(
              AfterAttackerModifier(hist.damage, hist'.attacker_stance,
                                    hist'.defender_stance),
              hist'.defender_stance)
       /\ \A side \in {1, 2} :
            Health(battle', side) =
              (IF hist'.attacker_stance = "Berserker"
                  /\ side = (IF hist'.is_player1 THEN 1 ELSE 2)
               THEN AfterBerserker(Health(battle, side), hist.damage)
               ELSE Health(battle, side))]_vars

\* a Berserker Mage attacked an Aggressive defender with a damage of 177:
\* 354 after the attacker's modifier, 531 after the defender's, and the
\* Mage's 80 health, less than the 88 it loses, is down to 0
C34_Witness ==
  /\ hist.last_op = "apply_stance_modifiers"
  /\ hist.attacker_stance = "Berserker"
  /\ hist.defender_stance = "Aggressive"
  /\ hist.is_player1
  /\ hist.damage = 531
  /\ battle.player1_hp = 0
  /\ battle.player2_hp = 120

\* ---- C35 ----
\* the stream ids of the rolls: 1 to 11 in the turn and the wildcards, 20 and
\* 21 in the AI's choice of stance
StreamIds == (1..11) \cup {20, 21}
\* every second of the blocks 96 and 97, and the turns around the first turn
\* number that reaches the bits the roll keeps
RollTimestamps == Block(96)..(Block(98) - 1)
RollTurns == {0, 1, 2, 3, 255, 256, 257}

\* C35: there are a timestamp and a turn number (those above, or the clock
\* and the turn number of the battle) at which two rolls with different stream
\* ids return different bytes.
C35_StreamIdChangesRoll ==
  \E timestamp \in RollTimestamps \cup {now},
     turn \in RollTurns \cup {battle.turn_number} :
    \E id1 \in StreamIds, id2 \in StreamIds :
      simple_random(timestamp, turn, id1) # simple_random(timestamp, turn, id2)

\* ---- C36 ----
\* C36: once a battle is terminal, no step changes its terminal flag, its
\* winner, either side's battle-local health, the turn counter or the turn
\* indicator.
C36_TerminalBattleFrozen ==
  [][battle.is_finished =>
       /\ battle'.is_finished
       /\ battle'.winner = battle.winner
       /\ battle'.player1_hp = battle.player1_hp
       /\ battle'.player2_hp = battle.player2_hp
       /\ battle'.turn_number = battle.turn_number
       /\ battle'.current_turn = battle.current_turn]_vars

\* ---- C37 ----
\* C37: a commit_stance, reveal_and_execute_turn or decide_wildcard call that
\* names a character that is neither player 1 nor player 2 is rejected.
C37_OutsiderRejected ==
  /\ \A h \in HashInputs : CommitCall(OutsiderKey, h).res # "Ok"
  /\ \A stance \in StanceInputs, salt \in Salts, use_special \in BOOLEAN :
       RevealCall(OutsiderKey, stance, salt, use_special).res # "Ok"
  /\ \A accept \in BOOLEAN : DecideCall(OutsiderKey, accept).res # "Ok"

\* ---- C38 ----
\* C38: what check_timeout and finalize_battle have released from a staked
\* battle's account never exceeds what create_battle locked in it.
C38_ReleasedWithinLocked == hist.released <= hist.locked

\* ---- C39 ----
\* C39: the side that does not hold the turn has its committed flag false
\* and an all-zero stored hash.
C39_OnlyHolderCommitted ==
  /\ battle.current_turn = 1 =>
       ~battle.player2_stance_committed /\ battle.player2_stance_hash = ZeroHash
  /\ battle.current_turn = 2 =>
       ~battle.player1_stance_committed /\ battle.player1_stance_hash = ZeroHash

\* ---- C40 ----
\* the character of the side that holds the turn
HolderKey == IF battle.current_turn = 1 THEN Player1Key ELSE Player2Key
\* no wildcard was resolved in the current turn and the reveal made now
\* triggers none
NoWildcardThisTurn ==
  /\ ~hist.wc_resolved
  /\ ~WildcardTriggers(battle, chars[HolderKey], now)

\* C40: in a turn in which no wildcard triggers, the attacker's effective
\* crit chance is the character's base crit chance.
C40_CritBoostOnlyWithFallacy ==
  [][(/\ AcceptedIs("reveal_and_execute_turn")
      /\ battle'.turn_number # battle.turn_number
      /\ NoWildcardThisTurn)
       => EffectiveCritChance(chars[HolderKey], battle, battle.current_turn = 1)
            = chars[HolderKey].crit_chance]_vars

====
